---- MODULE Spec2Model ----
(***************************************************************************)
(* State-machine model of the real-time voice session engine of the MIMI   *)
(* maternal-health assistant.                                              *)
(*                                                                         *)
(* The repository holds three builds of the class GeminiLiveSession:       *)
(*   "socketio"  client/src/lib/geminiLive.ts  (relayed through the        *)
(*               server bridge, gapless playback scheduler)                *)
(*   "ws"        the native-WebSocket build (unnamed/part_001)             *)
(*   "sdk"       the @google/genai SDK build (unnamed/part_002)            *)
(* The variable variant says which build a behaviour runs; it is chosen    *)
(* in Init and never changes.                                              *)
(*                                                                         *)
(* Time is counted in ticks of 100 ms.  Handlers are JavaScript callbacks  *)
(* that run to completion, so each handler is one action.  A handler is    *)
(* written as a function from a record of the whole state to a record of   *)
(* the whole state (the operators taking a parameter w), which keeps the   *)
(* order of the statements of the code; Cur is the current state as such   *)
(* a record and Commit(w) makes w the next state.                          *)
(*                                                                         *)
(* Of the "ws" and "sdk" builds the model covers the session life cycle    *)
(* and the wire; their queue player (playAudioBase64, playNextFromQueue)   *)
(* is not modelled, and stopAudio is modelled by what it does to the       *)
(* audio context.                                                          *)
(***************************************************************************)
EXTENDS Integers, Sequences, FiniteSets, TLC

\* ---------------------------------------------------------------- bounds
MaxChunks    == 3   \* audio chunks the server pushes in one behaviour of SpecPlay
LifeChunks   == 1   \* audio chunks the server pushes in one behaviour of Spec
MaxDur       == 1   \* longest chunk, in ticks
MaxAlerts    == 3   \* records in the alert store beyond which no alert is saved
MaxTime      == 4   \* last tick at which the server pushes audio or an interruption
MaxStatusLog == 4   \* status callbacks recorded before status-changing inputs stop
MaxErrors    == 2   \* error callbacks recorded before error-raising inputs stop
MaxCapturers == 2   \* PCMCapturer objects the view creates in one behaviour
MaxWire      == 3   \* messages written to the transport in one behaviour
MaxAcks      == 2   \* session-ready acknowledgments delivered in one behaviour
MaxSends     == 2   \* sendText / sendAudioChunk calls made in one behaviour
MaxUpstream  == 3   \* events the provider sends to the bridge in one behaviour
MaxPieces    == 3   \* pieces (characters or whole tags) of one text
MaxTexts     == 3   \* text events the view receives in one behaviour
MaxBadFrames == 1   \* unparseable frames the ws build receives in one behaviour
MaxSeverity  == 3   \* highest severity of headache and swelling calculateRisk is applied to
MaxDateNow   == 3   \* last millisecond at which the clock is read
MaxTurns     == 2   \* TurnComplete events the view handles in one behaviour

\* ------------------------------------------------------ program constants
BUFFER_LOOKAHEAD  == 2   \* 0.2 s
SPEAKING_DEBOUNCE == 3   \* 300 ms

NoTimer == -1            \* speakingTimeout = null: no timer pending
\* No onSpeakingChange call has been made yet.
NoCalls == [last |-> "none", alternate |-> TRUE]

TOKEN_RETRIES == 3       \* let retries = 3 (GeminiLiveBridge.connect)
TOKEN_BACKOFF == 10      \* 1000 ms between token attempts, in ticks
LATE_GESTATION == 196    \* daysPregnant >= 196: 28 weeks and later

Absent == -1             \* a numeric member that is undefined

Variants  == {"socketio", "ws", "sdk"}

\* Text is a sequence of tokens: "T" is the marker [RISK_DATA: , "h" and "b" are
\* two numeric members of a JSON object ("headache":2 and "bleeding":1, with the
\* comma a member needs), "a" is any other character, " " is white space.
Members == {"h", "b"}

\* Every member a risk tag is fed with: also "headache":3 ("H"), "blurredVision":1,
\* "swelling":2, "highBP":1, "fever":1, "reducedMovement":1, "daysPregnant":196.
\* ("D" is "daysPregnant":100, passed to handleRiskData in SpecMerge only.)
RiskMembers == Members \cup {"H", "v", "s", "p", "f", "m", "d"}
Tokens  == {"a", " ", "T", "{", "}", "]"} \cup Members

\* The users who sign up in this browser; NoUser is getCurrentUser() === null.
Users  == {"amina", "funke"}
NoUser == "none"

\* riskData: null, or the parsed object as its members in order.
NoRisk == [parsed |-> FALSE, fields |-> << >>]
ChunkIds  == 1..MaxChunks
CapIds    == 1..MaxCapturers

VARIABLES
    variant,               \* which build of GeminiLiveSession runs
    \* --- GeminiLiveSession fields
    status,                \* this.status
    sockRef,               \* this.socket / this.ws / this.session is not null
    sockState,             \* the transport object: "none", "opening", "open", "closed", and
                           \*   "failed" (error fired, close event due), "aborting" (closed
                           \*   while opening, error event due), "closing" (close event due)
    intentionalDisconnect, \* this.intentionalDisconnect (socketio)
    connectTimer,          \* connectTimeout: "none", "armed", "cleared", "fired" (socketio)
    connectResult,         \* the promise connect() returned: "none", "pending", "true", "false"
    setupSent,             \* this.setupSent (ws)
    audioChunkCount,       \* this.audioChunkCount; the n-th chunk is chunk n
    ctxState,              \* this.audioContext: "none", "suspended", "running"
    pendingResume,         \* scheduleAudioPlayback calls suspended in await resume(), in call order:
                           \*   chunk id, duration, and whether stopAllAudio ran since
    nextPlayTime,          \* this.nextPlayTime
    scheduledSources,      \* this.scheduledSources, as chunk ids
    isSpeaking,            \* this.isSpeaking
    speakingTimeout,       \* due time of the pending speakingTimeout, or NoTimer
    speakingCalls,         \* the onSpeakingChange calls made: the last value, and whether they alternated
    \* --- the audio engine (Web Audio) and the wire
    clock,                 \* audioContext.currentTime, in ticks
    src,                   \* per chunk id, its AudioBufferSourceNode: start, end, state
    played,                \* ids of the sources that have produced output
    wire,                  \* what was written to the transport, in order
    wireCalls,             \* for each entry of wire, the number of the send call that wrote it (0: setup)
    sendCalls,             \* sendText / sendAudioChunk calls made so far
    closedCalls,           \* numbers of the calls made while the transport was not open
    sendBuffer,            \* the Socket.IO socket's own sendBuffer: packets emitted before 'connect'
    readyAcks,             \* session-ready acknowledgments delivered to this session
    \* --- callbacks the session has made
    statusLog,             \* arguments of onStatusChange, in order
    errorLog,              \* arguments of onError, in order
    \* --- VoiceInterface (client/src/components/AppLayout.tsx)
    viewMounted,           \* the conversation view is on screen
    isLiveEnabled,         \* useState isLiveEnabled
    isMicActive,           \* useState isMicActive
    pcmCapturerRef,        \* pcmCapturerRef.current: a capturer id, or 0 for null
    capturers,             \* per PCMCapturer: "unused", "starting", "running", "stopped"
    \* --- GeminiLiveBridge (server/services/GeminiLiveBridge.js)
    brPhase,               \* where connect() stands: "idle", "token" (awaiting authTokens.create),
                           \*   "backoff" (awaiting the 1 s timer), "connecting" (awaiting
                           \*   live.connect), "up" (returned with a session), "failed" (caught)
    retries,               \* let retries
    tokenResult,           \* let tokenResult: "null", "named" or "unnamed" (a result without name)
    tokenLog,              \* outcome of each authTokens.create call, in order
    pauses,                \* length in ticks of each pause between token attempts, in order
    session,               \* this.session of the bridge is not null
    upstream,              \* the provider session: "none", "opening", "open", "closed"
    upstreamLog,           \* events the provider has sent to the bridge, in order
    emitted,               \* what the bridge emitted to clientSocket, in order
    emittedAt,             \* for each entry of emitted, the index in upstreamLog of the event
                           \*   being handled when it was emitted (0: none)
    clientGone,            \* the downstream client socket has disconnected
    delivered,             \* how many entries of emitted have reached the client
    \* --- risk tags in text (AppLayout / VoiceInterface / the REST helper)
    text,                  \* the text being produced by the provider, as tokens
    typed,                 \* how many pieces of it were produced
    extracted,             \* extractRiskFromText has been applied to text
    cleanText,             \* its result: cleanText
    riskData,              \* its result: riskData
    textEvents,            \* text events the view has received
    liveMessage,           \* the event whose clean text the live assistant message shows, 0: none
    parsedLog,             \* the risk records parsed out of text events, in order
    riskLog,               \* the records handleRiskData was called with, in order
    badFrames,             \* unparseable frames the ws build has received
    routed,                \* how many entries of wire the server has handed to the bridge
    upstreamIn,            \* what the bridge wrote to the provider session, by send call
    \* --- the risk engine, the memory store and the chat entries of the view
    calc,                  \* the last direct application of calculateRisk: its arguments and its result
    currentUser,           \* getCurrentUser() as a render of the view reads it: a user id, or NoUser
    liveUser,              \* the currentUser the live session's callbacks closed over when the view opened
    cumulativeRiskData,    \* cumulativeRiskDataRef.current
    currentRisk,           \* useState currentRisk: the last assessment, or NoAssessment
    liveAlerts,            \* localStorage mimi_live_alerts: the shared alert store
    sessionStore,          \* localStorage mimi_session_*: the stored conversation sessions
    currentSessionId,      \* localStorage mimi_current_session_id, 0: not set
    currentSession,        \* useState currentSession: the view's copy of its session, or NoSession
    previousContext,       \* the previousContext handed to initLiveSession when the view opened
    dateNow,               \* Date.now(), in milliseconds since the browser was first used
    talked,                \* per user, the session in which the user's last long message was stored, 0: none
    partialMessageIdRef,   \* partialMessageIdRef.current, 0 for null
    messages,              \* the assistant entries live text has put into useState messages
    turn,                  \* TurnComplete events the view has handled
    textTurns              \* the turns in which a live text event carried text

vars == << variant, status, sockRef, sockState, intentionalDisconnect, connectTimer,
           connectResult, setupSent, audioChunkCount, ctxState, pendingResume,
           nextPlayTime, scheduledSources, isSpeaking, speakingTimeout, speakingCalls,
           clock, src,
           played, wire, wireCalls, sendCalls, closedCalls, sendBuffer, readyAcks,
           statusLog, errorLog,
           viewMounted, isLiveEnabled, isMicActive, pcmCapturerRef, capturers,
           brPhase, retries, tokenResult, tokenLog, pauses, session, upstream,
           upstreamLog, emitted, emittedAt, clientGone, delivered,
           text, typed, extracted, cleanText, riskData, textEvents, liveMessage,
           parsedLog, riskLog, badFrames, routed, upstreamIn,
           calc, currentUser, liveUser, cumulativeRiskData, currentRisk, liveAlerts,
           sessionStore, currentSessionId, currentSession, previousContext, dateNow, talked,
           partialMessageIdRef, messages, turn, textTurns >>

Cur ==
    [ variant |-> variant, status |-> status, sockRef |-> sockRef, sockState |-> sockState,
      intentionalDisconnect |-> intentionalDisconnect, connectTimer |-> connectTimer,
      connectResult |-> connectResult, setupSent |-> setupSent,
      audioChunkCount |-> audioChunkCount, ctxState |-> ctxState,
      pendingResume |-> pendingResume, nextPlayTime |-> nextPlayTime,
      scheduledSources |-> scheduledSources, isSpeaking |-> isSpeaking,
      speakingTimeout |-> speakingTimeout, speakingCalls |-> speakingCalls,
      clock |-> clock, src |-> src, played |-> played,
      wire |-> wire, wireCalls |-> wireCalls, sendCalls |-> sendCalls,
      closedCalls |-> closedCalls, sendBuffer |-> sendBuffer,
      readyAcks |-> readyAcks, statusLog |-> statusLog,
      errorLog |-> errorLog, viewMounted |-> viewMounted, isLiveEnabled |-> isLiveEnabled,
      isMicActive |-> isMicActive, pcmCapturerRef |-> pcmCapturerRef,
      capturers |-> capturers,
      brPhase |-> brPhase, retries |-> retries, tokenResult |-> tokenResult,
      tokenLog |-> tokenLog, pauses |-> pauses, session |-> session,
      upstream |-> upstream, upstreamLog |-> upstreamLog, emitted |-> emitted,
      emittedAt |-> emittedAt, clientGone |-> clientGone, delivered |-> delivered,
      text |-> text, typed |-> typed, extracted |-> extracted, cleanText |-> cleanText,
      riskData |-> riskData, textEvents |-> textEvents, liveMessage |-> liveMessage,
      parsedLog |-> parsedLog, riskLog |-> riskLog, badFrames |-> badFrames,
      routed |-> routed, upstreamIn |-> upstreamIn,
      calc |-> calc,
      currentUser |-> currentUser,
      liveUser |-> liveUser,
      cumulativeRiskData |-> cumulativeRiskData,
      currentRisk |-> currentRisk,
      liveAlerts |-> liveAlerts,
      sessionStore |-> sessionStore,
      currentSessionId |-> currentSessionId,
      currentSession |-> currentSession,
      previousContext |-> previousContext,
      dateNow |-> dateNow,
      talked |-> talked,
      partialMessageIdRef |-> partialMessageIdRef,
      messages |-> messages,
      turn |-> turn,
      textTurns |-> textTurns ]

Commit(w) ==
    \E v \in {w} :
        /\ variant' = v.variant
        /\ status' = v.status
        /\ sockRef' = v.sockRef
        /\ sockState' = v.sockState
        /\ intentionalDisconnect' = v.intentionalDisconnect
        /\ connectTimer' = v.connectTimer
        /\ connectResult' = v.connectResult
        /\ setupSent' = v.setupSent
        /\ audioChunkCount' = v.audioChunkCount
        /\ ctxState' = v.ctxState
        /\ pendingResume' = v.pendingResume
        /\ nextPlayTime' = v.nextPlayTime
        /\ scheduledSources' = v.scheduledSources
        /\ isSpeaking' = v.isSpeaking
        /\ speakingTimeout' = v.speakingTimeout
        /\ speakingCalls' = v.speakingCalls
        /\ clock' = v.clock
        /\ src' = v.src
        /\ played' = v.played
        /\ wire' = v.wire
        /\ wireCalls' = v.wireCalls
        /\ sendCalls' = v.sendCalls
        /\ closedCalls' = v.closedCalls
        /\ sendBuffer' = v.sendBuffer
        /\ readyAcks' = v.readyAcks
        /\ statusLog' = v.statusLog
        /\ errorLog' = v.errorLog
        /\ viewMounted' = v.viewMounted
        /\ isLiveEnabled' = v.isLiveEnabled
        /\ isMicActive' = v.isMicActive
        /\ pcmCapturerRef' = v.pcmCapturerRef
        /\ capturers' = v.capturers
        /\ brPhase' = v.brPhase
        /\ retries' = v.retries
        /\ tokenResult' = v.tokenResult
        /\ tokenLog' = v.tokenLog
        /\ pauses' = v.pauses
        /\ session' = v.session
        /\ upstream' = v.upstream
        /\ upstreamLog' = v.upstreamLog
        /\ emitted' = v.emitted
        /\ emittedAt' = v.emittedAt
        /\ clientGone' = v.clientGone
        /\ delivered' = v.delivered
        /\ text' = v.text
        /\ typed' = v.typed
        /\ extracted' = v.extracted
        /\ cleanText' = v.cleanText
        /\ riskData' = v.riskData
        /\ textEvents' = v.textEvents
        /\ liveMessage' = v.liveMessage
        /\ parsedLog' = v.parsedLog
        /\ riskLog' = v.riskLog
        /\ badFrames' = v.badFrames
        /\ routed' = v.routed
        /\ upstreamIn' = v.upstreamIn
        /\ calc' = v.calc
        /\ currentUser' = v.currentUser
        /\ liveUser' = v.liveUser
        /\ cumulativeRiskData' = v.cumulativeRiskData
        /\ currentRisk' = v.currentRisk
        /\ liveAlerts' = v.liveAlerts
        /\ sessionStore' = v.sessionStore
        /\ currentSessionId' = v.currentSessionId
        /\ currentSession' = v.currentSession
        /\ previousContext' = v.previousContext
        /\ dateNow' = v.dateNow
        /\ talked' = v.talked
        /\ partialMessageIdRef' = v.partialMessageIdRef
        /\ messages' = v.messages
        /\ turn' = v.turn
        /\ textTurns' = v.textTurns

\* ----------------------------------------- the risk engine (lib/riskEngine.ts)

\* A RiskData object.  A symptom member that is undefined reads as 0 in every
\* test calculateRisk and mergeRiskData make; daysPregnant is Absent when undefined.
EmptyRisk ==
    [headache |-> 0, blurredVision |-> 0, swelling |-> 0, highBP |-> 0, bleeding |-> 0,
     fever |-> 0, reducedMovement |-> 0, daysPregnant |-> Absent]

Flag(name, severity) == [name |-> name, severity |-> severity]

NoFlags == << >>

\* One rule of calculateRisk: what it adds to the score and the flag it pushes.
Rule(points, flags) == [points |-> points, flags |-> flags]

Min(a, b) == IF a <= b THEN a ELSE b
Max(a, b) == IF a >= b THEN a ELSE b

\* score * 1.15 on a score held in hundredths.  The product is computed in IEEE
\* doubles, where 50 * 1.15 is 57.49999999999999 and not 57.5.
Times115(h) == IF h = 5000 THEN 5749 ELSE (h * 115) \div 100

\* Math.round of a non-negative number held in hundredths.
Round(h) == (h + 50) \div 100

\* The level calculateRisk derives from the rounded score and the flags.
LevelOf(score, flags) ==
    IF score >= 70 \/ (\E k \in 1..Len(flags) : flags[k].severity = "critical") THEN "critical"
    ELSE IF score >= 45 THEN "high"
    ELSE IF score >= 20 THEN "medium"
    ELSE "low"

\* calculateRisk(riskData, storedHistory), previousHighRisk being
\* storedHistory?.previousHighRisk.
CalculateRisk(rd, previousHighRisk) ==
    LET r1 == IF rd.headache >= 3 THEN Rule(25, <<Flag("Severe Headache", "danger")>>)
              ELSE IF rd.headache = 2 THEN Rule(15, <<Flag("Moderate Headache", "warning")>>)
              ELSE IF rd.headache = 1 THEN Rule(5, NoFlags)
              ELSE Rule(0, NoFlags)
        r2 == IF rd.blurredVision > 0
                THEN Rule(30, <<Flag("Blurred Vision / Seeing Spots", "critical")>>)
                ELSE Rule(0, NoFlags)
        r3 == IF rd.swelling >= 2 THEN Rule(20, <<Flag("Significant Swelling", "danger")>>)
              ELSE IF rd.swelling = 1 THEN Rule(8, <<Flag("Mild Swelling", "warning")>>)
              ELSE Rule(0, NoFlags)
        r4 == IF rd.highBP > 0 THEN Rule(25, <<Flag("High Blood Pressure", "danger")>>)
              ELSE Rule(0, NoFlags)
        r5 == IF rd.bleeding > 0 THEN Rule(40, <<Flag("Vaginal Bleeding", "critical")>>)
              ELSE Rule(0, NoFlags)
        r6 == IF rd.fever > 0 THEN Rule(15, <<Flag("Fever", "warning")>>)
              ELSE Rule(0, NoFlags)
        r7 == IF rd.reducedMovement > 0
                THEN Rule(25, <<Flag("Reduced Baby Movement", "danger")>>)
                ELSE Rule(0, NoFlags)
        r8 == IF rd.headache >= 2 /\ rd.swelling >= 1 /\ rd.highBP > 0
                THEN Rule(20, <<Flag("Pre-Eclampsia Pattern Detected", "critical")>>)
                ELSE Rule(0, NoFlags)
        flags == r1.flags \o r2.flags \o r3.flags \o r4.flags \o r5.flags \o r6.flags
                   \o r7.flags \o r8.flags
        s0 == 100 * (r1.points + r2.points + r3.points + r4.points + r5.points + r6.points
                       + r7.points + r8.points)
        s1 == IF previousHighRisk THEN Min((s0 * 120) \div 100, 10000) ELSE s0
        s2 == IF rd.daysPregnant >= LATE_GESTATION /\ s1 > 2000
                THEN Min(Times115(s1), 10000) ELSE s1
        score == Min(Round(s2), 100)
        level == LevelOf(score, flags)
    IN  [score |-> score, level |-> level, flags |-> flags,
         requiresAlert |-> level \in {"critical", "high"}]

\* A faulty variant of MergeRiskData, kept for comparison: daysPregnant is merged
\* like a symptom, by Math.max.
MergeRiskData_MaxDays(existing, incoming) ==
    [headache |-> Max(existing.headache, incoming.headache),
     blurredVision |-> Max(existing.blurredVision, incoming.blurredVision),
     swelling |-> Max(existing.swelling, incoming.swelling),
     highBP |-> Max(existing.highBP, incoming.highBP),
     bleeding |-> Max(existing.bleeding, incoming.bleeding),
     fever |-> Max(existing.fever, incoming.fever),
     reducedMovement |-> Max(existing.reducedMovement, incoming.reducedMovement),
     daysPregnant |-> Max(0, Max(existing.daysPregnant, incoming.daysPregnant))]

\* mergeRiskData(existing, incoming).
MergeRiskData(existing, incoming) ==
    [headache |-> Max(existing.headache, incoming.headache),
     blurredVision |-> Max(existing.blurredVision, incoming.blurredVision),
     swelling |-> Max(existing.swelling, incoming.swelling),
     highBP |-> Max(existing.highBP, incoming.highBP),
     bleeding |-> Max(existing.bleeding, incoming.bleeding),
     fever |-> Max(existing.fever, incoming.fever),
     reducedMovement |-> Max(existing.reducedMovement, incoming.reducedMovement),
     daysPregnant |-> IF incoming.daysPregnant # Absent THEN incoming.daysPregnant
                      ELSE IF existing.daysPregnant # Absent THEN existing.daysPregnant
                      ELSE 0]

NoAssessment == [score |-> 0, level |-> "none", flags |-> NoFlags, requiresAlert |-> FALSE]

NoCalc == [applied |-> FALSE, riskData |-> EmptyRisk, previousHighRisk |-> FALSE,
           result |-> NoAssessment]

\* The arguments calculateRisk is applied to.
RiskInputs ==
    [headache : 0..MaxSeverity, blurredVision : 0..1, swelling : 0..MaxSeverity,
     highBP : 0..1, bleeding : 0..1, fever : 0..1, reducedMovement : 0..1,
     daysPregnant : {Absent, 0, LATE_GESTATION}]

\* ------------------------------------------- the memory store (memoryStore.ts)

\* A stored message: who wrote it and whether its content is longer than 5
\* characters.  A stored session: id, userId, startedAt, messages, riskScore.
NoSession == [id |-> 0, userId |-> NoUser, startedAt |-> 0, messages |-> << >>, riskScore |-> 0]

\* A prior-session context: the text built from a session's risk score
\* ("risk"), from the last said of its long user messages ("symptoms"), or undefined.
NoContext == [kind |-> "undefined", of |-> 0, said |-> 0]

\* saveConversationSession: localStorage.setItem under the session's own key.
SaveConversationSession(w, s) ==
    [w EXCEPT !.sessionStore = {x \in @ : x.id # s.id} \cup {s}]

\* The session object startConversationSession builds: id and startedAt are
\* both taken from the clock.
NewSession(w, userId) ==
    [id |-> w.dateNow, userId |-> userId, startedAt |-> w.dateNow, messages |-> << >>, riskScore |-> 0]

\* startConversationSession(userId): the new session is saved and made current.
StartConversationSession(w, userId) ==
    [SaveConversationSession(w, NewSession(w, userId)) EXCEPT !.currentSessionId = w.dateNow]

\* getCurrentSession().
GetCurrentSession(w) ==
    IF w.currentSessionId = 0 THEN NoSession
    ELSE IF \E x \in w.sessionStore : x.id = w.currentSessionId
      THEN CHOOSE x \in w.sessionStore : x.id = w.currentSessionId
      ELSE NoSession

\* sessions.sort by startedAt.
RECURSIVE SortByStartedAt(_)
SortByStartedAt(S) ==
    IF S = {} THEN << >>
    ELSE LET first == CHOOSE x \in S : \A y \in S : x.startedAt <= y.startedAt
         IN  <<first>> \o SortByStartedAt(S \ {first})

\* getAllUserSessions(userId).
GetAllUserSessions(store, userId) == SortByStartedAt({x \in store : x.userId = userId})

IsLongUserMessage(m) == m.role = "user" /\ m.long

\* getPreviousSessionContext(userId).
GetPreviousSessionContext(store, userId) ==
    LET sessions == GetAllUserSessions(store, userId)
        lastSession == sessions[Len(sessions)]
        recent == SelectSeq(lastSession.messages, IsLongUserMessage)
    IN  IF Len(sessions) = 0 THEN NoContext
        ELSE IF lastSession.riskScore > 20
          THEN [kind |-> "risk", of |-> lastSession.id, said |-> 0]
        ELSE IF recent # << >>
          THEN [kind |-> "symptoms", of |-> lastSession.id, said |-> Min(3, Len(recent))]
        ELSE NoContext

\* addMessageToSession(session, role, content): the copy with the message
\* appended is saved under the session's key.
WithMessage(sess, role, long) ==
    [sess EXCEPT !.messages = Append(@, [role |-> role, long |-> long])]

AddMessageToSession(w, sess, role, long) ==
    SaveConversationSession(w, WithMessage(sess, role, long))

\* A faulty variant of SaveLivePatientAlert, kept for comparison: the alert is
\* pushed without looking for the patient's record.
SaveLivePatientAlert_AlwaysPush(w, alert) ==
    [w EXCEPT !.liveAlerts = Append(@, alert)]

\* saveLivePatientAlert(alert): the patient's record is replaced, or appended.
SaveLivePatientAlert(w, alert) ==
    LET idx == {k \in 1..Len(w.liveAlerts) : w.liveAlerts[k].patientId = alert.patientId}
    IN  IF idx # {}
          THEN [w EXCEPT !.liveAlerts[CHOOSE k \in idx : \A l \in idx : k <= l] = alert]
          ELSE [w EXCEPT !.liveAlerts = Append(@, alert)]

\* clearLiveAlert(patientId): the records of other patients are kept, in order.
ClearLiveAlert(w, patientId) ==
    [w EXCEPT !.liveAlerts = SelectSeq(@, LAMBDA a : a.patientId # patientId)]

\* The id the init effect and handleSendMessage start a session under.
SessionUserId(w) == IF w.currentUser # NoUser THEN w.currentUser ELSE "guest"

\* The init effect of the view: the current session is looked up, or started;
\* then the prior-session context is read and handed to initLiveSession, whose
\* callbacks close over this render's currentUser.
OpenView(w) ==
    LET found == GetCurrentSession(w)
        w1 == IF found = NoSession THEN StartConversationSession(w, SessionUserId(w)) ELSE w
    IN  [w1 EXCEPT !.currentSession = IF found = NoSession THEN NewSession(w, SessionUserId(w))
                                                         ELSE found,
                   !.previousContext = IF w.currentUser # NoUser
                                         THEN GetPreviousSessionContext(w1.sessionStore,
                                                                        w.currentUser)
                                         ELSE NoContext,
                   !.liveUser = w.currentUser]

\* A browser that has never run the program, after the first user has signed up.
Blank ==
    [currentUser |-> "amina", liveUser |-> NoUser, sessionStore |-> {}, currentSessionId |-> 0,
     currentSession |-> NoSession, previousContext |-> NoContext, dateNow |-> 1]

FirstVisit == OpenView(Blank)

NoSource == [start |-> 0, end |-> 0, state |-> "unused"]

\* The state after the view has constructed a GeminiLiveSession and before connect().
Init ==
    /\ variant \in Variants
    /\ status = "disconnected"
    /\ sockRef = FALSE
    /\ sockState = "none"
    /\ intentionalDisconnect = FALSE
    /\ connectTimer = "none"
    /\ connectResult = "none"
    /\ setupSent = FALSE
    /\ audioChunkCount = 0
    /\ ctxState = "none"
    /\ pendingResume = << >>
    /\ nextPlayTime = 0
    /\ scheduledSources = << >>
    /\ isSpeaking = FALSE
    /\ speakingTimeout = NoTimer
    /\ speakingCalls = NoCalls
    /\ clock = 0
    /\ src = [i \in ChunkIds |-> NoSource]
    /\ played = {}
    /\ wire = << >>
    /\ wireCalls = << >>
    /\ sendCalls = 0
    /\ closedCalls = {}
    /\ sendBuffer = << >>
    /\ readyAcks = 0
    /\ statusLog = << >>
    /\ errorLog = << >>
    /\ viewMounted = TRUE
    /\ isLiveEnabled = TRUE
    /\ isMicActive = FALSE
    /\ pcmCapturerRef = 0
    /\ capturers = [c \in CapIds |-> "unused"]
    /\ brPhase = "idle"
    /\ retries = 0
    /\ tokenResult = "null"
    /\ tokenLog = << >>
    /\ pauses = << >>
    /\ session = FALSE
    /\ upstream = "none"
    /\ upstreamLog = << >>
    /\ emitted = << >>
    /\ emittedAt = << >>
    /\ clientGone = FALSE
    /\ delivered = 0
    /\ text = << >>
    /\ typed = 0
    /\ extracted = FALSE
    /\ cleanText = << >>
    /\ riskData = NoRisk
    /\ textEvents = 0
    /\ liveMessage = 0
    /\ parsedLog = << >>
    /\ riskLog = << >>
    /\ badFrames = 0
    /\ routed = 0
    /\ upstreamIn = << >>
    /\ calc = NoCalc
    /\ currentUser = FirstVisit.currentUser
    /\ liveUser = FirstVisit.liveUser
    /\ cumulativeRiskData = EmptyRisk
    /\ currentRisk = NoAssessment
    /\ liveAlerts = << >>
    /\ sessionStore = FirstVisit.sessionStore
    /\ currentSessionId = FirstVisit.currentSessionId
    /\ currentSession = FirstVisit.currentSession
    /\ previousContext = FirstVisit.previousContext
    /\ dateNow = FirstVisit.dateNow
    /\ talked = [u \in Users |-> 0]
    /\ partialMessageIdRef = 0
    /\ messages = << >>
    /\ turn = 0
    /\ textTurns = {}

\* ------------------------------------------------- callbacks into the view

\* onStatusChange of the view: liveStatus mirrors the argument; the live path is
\* switched off on "error" and "disconnected".
OnStatusChange(w, s) ==
    [w EXCEPT !.statusLog = Append(@, s),
              !.isLiveEnabled = IF s \in {"error", "disconnected"} THEN FALSE ELSE @]

\* onError of the view: setIsLiveEnabled(false); setIsMicActive(false).  Only the
\* socketio build's view has the mic flag; the capturer is not touched.
OnError(w, e) ==
    [w EXCEPT !.errorLog = Append(@, e),
              !.isLiveEnabled = FALSE,
              !.isMicActive = IF w.variant = "socketio" THEN FALSE ELSE @]

\* ------------------------------------------------ GeminiLiveSession helpers

SetStatus(w, s) == OnStatusChange([w EXCEPT !.status = s], s)

\* resolve(b) of the promise connect() returned: only the first call settles it.
Resolve(w, b) ==
    [w EXCEPT !.connectResult =
        IF @ = "pending" THEN (IF b THEN "true" ELSE "false") ELSE @]

\* this.callbacks.onSpeakingChange?.(v): the call is recorded; the calls alternate
\* when the first one passes true and each later one differs from the one before.
OnSpeakingChange(w, v) ==
    [w EXCEPT !.speakingCalls =
        [last |-> IF v THEN "true" ELSE "false",
         alternate |-> @.alternate /\ (IF @.last = "none" THEN v
                                       ELSE @.last # (IF v THEN "true" ELSE "false"))]]

\* A faulty variant of SetSpeaking, kept for comparison: the falling edge is reported at once, without the timer.
SetSpeaking_NoDebounce(w, speaking) ==
    LET w1 == [w EXCEPT !.speakingTimeout = NoTimer]
    IN  IF speaking /\ ~w.isSpeaking
          THEN OnSpeakingChange([w1 EXCEPT !.isSpeaking = TRUE], TRUE)
        ELSE IF ~speaking /\ w.isSpeaking
          THEN OnSpeakingChange([w1 EXCEPT !.isSpeaking = FALSE], FALSE)
        ELSE w1

\* A faulty variant of SetSpeaking, kept for comparison: true is reported at every
\* call that passes true, without the test of this.isSpeaking.
SetSpeaking_EveryCall(w, speaking) ==
    LET w1 == [w EXCEPT !.speakingTimeout = NoTimer]
    IN  IF speaking
          THEN OnSpeakingChange([w1 EXCEPT !.isSpeaking = TRUE], TRUE)
        ELSE IF ~speaking /\ w.isSpeaking
          THEN [w1 EXCEPT !.speakingTimeout = w.clock + SPEAKING_DEBOUNCE]
        ELSE w1

\* setSpeaking: clear the pending timer; a rising edge is reported at once, a
\* falling edge after the 300 ms timer.
SetSpeaking(w, speaking) ==
    LET w1 == [w EXCEPT !.speakingTimeout = NoTimer]
    IN  IF speaking /\ ~w.isSpeaking
          THEN OnSpeakingChange([w1 EXCEPT !.isSpeaking = TRUE], TRUE)
        ELSE IF ~speaking /\ w.isSpeaking
          THEN [w1 EXCEPT !.speakingTimeout = w.clock + SPEAKING_DEBOUNCE]
        ELSE w1

\* source.onended = null; source.stop(): the node stops now if it has not ended.
StopSource(s, now) ==
    IF s.state = "scheduled"
      THEN [s EXCEPT !.state = "stopped", !.end = IF now < @ THEN now ELSE @]
      ELSE s

InSeq(x, q) == \E i \in 1..Len(q) : q[i] = x

\* The calls suspended in await resume() are marked as overtaken by a
\* stopAllAudio (not part of the program's state: kept to state which chunks had
\* arrived before it).
CutAll(q) == [k \in 1..Len(q) |-> [q[k] EXCEPT !.cut = TRUE]]

\* A faulty variant of StopAllAudio, kept for comparison: stopping the audio
\* also drops the transport, as a teardown does.
StopAllAudio_DropsTransport(w) ==
    SetSpeaking(
        [w EXCEPT !.src = [i \in ChunkIds |->
                              IF InSeq(i, w.scheduledSources)
                                THEN StopSource(w.src[i], w.clock) ELSE w.src[i]],
                  !.scheduledSources = << >>,
                  !.pendingResume = CutAll(@),
                  !.nextPlayTime = 0,
                  !.sockState = "closed"],
        FALSE)

\* A faulty variant of StopAllAudio, kept for comparison: the timeline cursor is not reset.
StopAllAudio_KeepCursor(w) ==
    SetSpeaking(
        [w EXCEPT !.src = [i \in ChunkIds |->
                              IF InSeq(i, w.scheduledSources)
                                THEN StopSource(w.src[i], w.clock) ELSE w.src[i]],
                  !.scheduledSources = << >>,
                  !.pendingResume = CutAll(@)],
        FALSE)

StopAllAudio(w) ==
    SetSpeaking(
        [w EXCEPT !.src = [i \in ChunkIds |->
                              IF InSeq(i, w.scheduledSources)
                                THEN StopSource(w.src[i], w.clock) ELSE w.src[i]],
                  !.scheduledSources = << >>,
                  !.pendingResume = CutAll(@),
                  !.nextPlayTime = 0],
        FALSE)

\* A faulty variant of ScheduleNow, kept for comparison: a cursor that fell behind the clock is not moved forward.
ScheduleNow_NoCatchUp(w, id, dur) ==
    LET t0 == IF w.nextPlayTime = 0 THEN w.clock + BUFFER_LOOKAHEAD ELSE w.nextPlayTime
        t1 == t0
    IN  IF dur = 0
          THEN w
          ELSE SetSpeaking(
                 [w EXCEPT !.src[id] = [start |-> t1, end |-> t1 + dur, state |-> "scheduled"],
                           !.scheduledSources = Append(@, id),
                           !.nextPlayTime = t1 + dur],
                 TRUE)

\* A faulty variant of ScheduleNow, kept for comparison: nextPlayTime is not advanced by the buffer's duration.
ScheduleNow_NoAdvance(w, id, dur) ==
    LET t0 == IF w.nextPlayTime = 0 THEN w.clock + BUFFER_LOOKAHEAD ELSE w.nextPlayTime
        t1 == IF t0 < w.clock THEN w.clock + BUFFER_LOOKAHEAD ELSE t0
    IN  IF dur = 0
          THEN w
          ELSE SetSpeaking(
                 [w EXCEPT !.src[id] = [start |-> t1, end |-> t1 + dur, state |-> "scheduled"],
                           !.scheduledSources = Append(@, id),
                           !.nextPlayTime = t1],
                 TRUE)

\* scheduleAudioPlayback from the decoding on (after any await): a chunk of no
\* samples makes createBuffer throw, and the catch drops the chunk.
ScheduleNow(w, id, dur) ==
    LET t0 == IF w.nextPlayTime = 0 THEN w.clock + BUFFER_LOOKAHEAD ELSE w.nextPlayTime
        t1 == IF t0 < w.clock THEN w.clock + BUFFER_LOOKAHEAD ELSE t0
    IN  IF dur = 0
          THEN w
          ELSE SetSpeaking(
                 [w EXCEPT !.src[id] = [start |-> t1, end |-> t1 + dur, state |-> "scheduled"],
                           !.scheduledSources = Append(@, id),
                           !.nextPlayTime = t1 + dur],
                 TRUE)

\* scheduleAudioPlayback: create the AudioContext when there is none (the browser
\* starts it suspended or running); a suspended context suspends the call in
\* await resume().
ScheduleAudioPlayback(w, id, dur, startsSuspended) ==
    LET w1 == IF w.ctxState = "none"
                THEN [w EXCEPT !.ctxState = IF startsSuspended THEN "suspended" ELSE "running"]
                ELSE w
    IN  IF w1.ctxState = "suspended"
          THEN [w1 EXCEPT !.pendingResume = Append(@, [id |-> id, dur |-> dur, cut |-> FALSE])]
          ELSE ScheduleNow(w1, id, dur)

RECURSIVE RunPending(_, _)
RunPending(w, q) ==
    IF q = << >> THEN w
    ELSE RunPending(ScheduleNow(w, Head(q).id, Head(q).dur), Tail(q))

\* disconnect() of the socketio build.  socket.disconnect() fires the socket's own
\* 'disconnect' event while intentionalDisconnect is set, so that handler does
\* nothing.  The connect timer is not cleared.
DisconnectIO(w) ==
    SetStatus(
        StopAllAudio(
            [w EXCEPT !.intentionalDisconnect = TRUE,
                      !.sockState = IF w.sockRef /\ @ \in {"opening", "open"} THEN "closed" ELSE @,
                      !.sockRef = FALSE]),
        "disconnected")

\* ------------------------------------------- socketio build: the session

IsIO == variant = "socketio"

\* A 'status' event of the server: its status field and what its message contains.
StatusMsgs == [status : {"connected", "none"}, error : BOOLEAN, ready : BOOLEAN]

\* The acknowledgment that the bridge's upstream session is ready.
IsReadyAck(m) == ~m.error /\ (m.status = "connected" \/ m.ready)

CanLog == Len(statusLog) < MaxStatusLog /\ Len(errorLog) < MaxErrors

\* connect(): the view calls it once, right after constructing the session.
ConnectIO(w) ==
    [SetStatus([w EXCEPT !.intentionalDisconnect = FALSE], "connecting")
        EXCEPT !.connectTimer = "armed",
               !.sockState = "opening",
               !.sockRef = TRUE,
               !.connectResult = "pending"]

Connect ==
    /\ IsIO /\ connectResult = "none" /\ statusLog = << >>
    /\ Commit(ConnectIO(Cur))

\* The socket flushes its sendBuffer when it connects.
FlushSendBuffer(w) ==
    [w EXCEPT !.wire = @ \o [k \in 1..Len(w.sendBuffer) |-> w.sendBuffer[k].msg],
              !.wireCalls = @ \o [k \in 1..Len(w.sendBuffer) |-> w.sendBuffer[k].call],
              !.sendBuffer = << >>]

\* socket.on('connect'): the transport is open; the handler only logs.
SocketConnect ==
    /\ IsIO /\ sockState = "opening"
    /\ Commit(FlushSendBuffer([Cur EXCEPT !.sockState = "open"]))

\* A send call is made: it gets the next call number, and the call is noted when
\* the transport is not open at that moment.
Called(w) ==
    [w EXCEPT !.sendCalls = @ + 1,
              !.closedCalls = IF w.sockState = "open" THEN @ ELSE @ \cup {w.sendCalls + 1}]

CanSend == connectResult # "none" /\ sendCalls < MaxSends /\ Len(wire) < MaxWire

\* socket.emit: a connected socket writes the packet, any other socket keeps it
\* in its sendBuffer.
Emit(w, msg, call) ==
    IF w.sockState = "open"
      THEN [w EXCEPT !.wire = Append(@, msg), !.wireCalls = Append(@, call)]
      ELSE [w EXCEPT !.sendBuffer = Append(@, [msg |-> msg, call |-> call])]

\* A faulty variant of SendTextIO, kept for comparison: only a missing socket is
\* tested, not socket.connected.
SendTextIO_NoGuard(w, call) ==
    IF ~w.sockRef THEN w ELSE Emit(w, "text", call)

\* sendText of the socketio build.
SendTextIO(w, call) ==
    IF ~(w.sockRef /\ w.sockState = "open") THEN w ELSE Emit(w, "text", call)

IoSendText ==
    /\ IsIO /\ CanSend
    /\ Commit(SendTextIO(Called(Cur), sendCalls + 1))

\* sendAudioChunk of the socketio build, called by the capturer's onChunk.
SendAudioChunkIO(w, call) ==
    IF ~(w.sockRef /\ w.sockState = "open") THEN w ELSE Emit(w, "audio", call)

IoSendAudioChunk ==
    /\ IsIO /\ CanSend
    /\ Commit(SendAudioChunkIO(Called(Cur), sendCalls + 1))

\* The 20 s connectTimeout fires.
OnConnectTimeout(w) ==
    Resolve(SetStatus(OnError([w EXCEPT !.connectTimer = "fired"], "timeout"), "error"), FALSE)

ConnectTimeout ==
    /\ IsIO /\ connectTimer = "armed"
    /\ Commit(OnConnectTimeout(Cur))

\* socket.on('status').
OnStatus(w, m) ==
    IF m.error
      THEN Resolve(SetStatus(OnError([w EXCEPT !.connectTimer = IF @ = "armed" THEN "cleared" ELSE @],
                                     "server"), "error"), FALSE)
    ELSE IF m.status = "connected" \/ m.ready
      THEN Resolve(SetStatus([w EXCEPT !.connectTimer = IF @ = "armed" THEN "cleared" ELSE @],
                             "connected"), TRUE)
    ELSE w

\* The 'status' event with message m is delivered.
StatusDelivered(m) ==
    /\ IsIO /\ sockState = "open" /\ CanLog
    /\ IsReadyAck(m) => readyAcks < MaxAcks
    /\ Commit(OnStatus([Cur EXCEPT !.readyAcks = IF IsReadyAck(m) THEN @ + 1 ELSE @], m))

ServerStatus == \E m \in StatusMsgs : StatusDelivered(m)

\* socket.on('connect_error'): the transport could not be opened (reconnection is off).
OnConnectError(w) ==
    LET w1 == [w EXCEPT !.connectTimer = IF @ = "armed" THEN "cleared" ELSE @,
                        !.sockState = "closed"]
    IN  Resolve(IF ~w1.intentionalDisconnect
                  THEN SetStatus(OnError(w1, "connect_error"), "error")
                  ELSE w1,
                FALSE)

ConnectError ==
    /\ IsIO /\ sockState = "opening"
    /\ Commit(OnConnectError(Cur))

\* socket.on('disconnect'): the open transport was lost (not by disconnect()).
OnSocketDisconnect(w) ==
    LET w1 == [w EXCEPT !.sockState = "closed"]
    IN  IF ~w1.intentionalDisconnect
          THEN OnError(SetStatus(w1, "disconnected"), "lost")
          ELSE w1

SocketDisconnect ==
    /\ IsIO /\ sockState = "open"
    /\ Commit(OnSocketDisconnect(Cur))

\* disconnect(), called by the owner of the session at any time after connect().
Disconnect ==
    /\ IsIO /\ connectResult # "none" /\ Len(statusLog) < MaxStatusLog
    /\ Commit(DisconnectIO(Cur))

\* socket.on('audio-output'): the next chunk, of dur ticks of samples (0: an empty
\* chunk).  The bridge relays audio only once its upstream session is up.
OnAudioOutput(w, dur, startsSuspended) ==
    LET id == w.audioChunkCount + 1
    IN  ScheduleAudioPlayback([w EXCEPT !.audioChunkCount = id], id, dur, startsSuspended)

AudioOutputUpTo(n) ==
    /\ IsIO /\ sockState = "open" /\ readyAcks > 0 /\ audioChunkCount < n /\ clock <= MaxTime
    /\ \E dur \in 0..MaxDur, startsSuspended \in BOOLEAN :
         /\ (ctxState # "none" => ~startsSuspended)
         /\ Commit(OnAudioOutput(Cur, dur, startsSuspended))

AudioOutput     == AudioOutputUpTo(MaxChunks)
AudioOutputLife == AudioOutputUpTo(LifeChunks)

\* The promises of audioContext.resume() resolve, all in call order, and each
\* suspended scheduleAudioPlayback call runs on to its end.
ResumeResolved ==
    /\ ctxState = "suspended" /\ pendingResume # << >>
    /\ Commit(RunPending([Cur EXCEPT !.ctxState = "running", !.pendingResume = << >>],
                         pendingResume))

\* socket.on('interrupted').
Interrupted ==
    /\ IsIO /\ sockState = "open" /\ readyAcks > 0 /\ clock <= MaxTime
    /\ Commit(StopAllAudio(Cur))

\* ------------------------------------------------ the audio engine and time

SourceDue(i)  == src[i].state = "scheduled" /\ clock >= src[i].end
TimerDue      == speakingTimeout # NoTimer /\ clock >= speakingTimeout
TimePending   == speakingTimeout # NoTimer \/ \E i \in ChunkIds : src[i].state = "scheduled"

\* 100 ms pass.  Events that are due are delivered first.  A source that is
\* scheduled over the tick produces output.
Tick ==
    /\ ctxState = "running"
    /\ clock < MaxTime \/ TimePending
    /\ ~TimerDue /\ \A i \in ChunkIds : ~SourceDue(i)
    /\ Commit([Cur EXCEPT !.clock = @ + 1,
                          !.played = @ \cup {i \in ChunkIds :
                                        /\ src[i].state = "scheduled"
                                        /\ src[i].start <= clock /\ clock < src[i].end}])

RemoveId(q, x) == SelectSeq(q, LAMBDA y : y # x)

\* source.onended of the socketio build.
OnEnded(w, i) ==
    LET w1 == [w EXCEPT !.src[i].state = "ended",
                        !.scheduledSources = RemoveId(@, i)]
    IN  IF w1.scheduledSources = << >> THEN SetSpeaking(w1, FALSE) ELSE w1

SourceEnded ==
    /\ IsIO
    /\ \E i \in ChunkIds : SourceDue(i) /\ Commit(OnEnded(Cur, i))

\* The 300 ms timer of setSpeaking fires.
SpeakingTimeoutFires ==
    /\ TimerDue
    /\ Commit(OnSpeakingChange([Cur EXCEPT !.isSpeaking = FALSE, !.speakingTimeout = NoTimer],
                               FALSE))

\* ------------------------------ VoiceInterface (client AppLayout.tsx), socketio

FreeCapturer(c) == capturers[c] = "unused" /\ \A d \in CapIds : d < c => capturers[d] # "unused"

\* fallbackSpeechRecognition: without a SpeechRecognition class the mic flag is dropped.
FallbackSpeechRecognition(w, srSupported) ==
    IF srSupported THEN w ELSE [w EXCEPT !.isMicActive = FALSE]

\* handleMicPress.  A pressed mic is muted: the capturer the ref holds is stopped.
\* Otherwise the mic flag is set and, on the live path, a new PCMCapturer is
\* started (the call is suspended in await capturer.start()).
OnMicPress(w, c, srSupported) ==
    IF w.isMicActive
      THEN [w EXCEPT !.isMicActive = FALSE,
                     !.capturers = IF w.pcmCapturerRef # 0
                                     THEN [@ EXCEPT ![w.pcmCapturerRef] = "stopped"] ELSE @,
                     !.pcmCapturerRef = 0]
    ELSE IF w.isLiveEnabled /\ w.status = "connected"
      THEN [w EXCEPT !.isMicActive = TRUE, !.capturers[c] = "starting"]
    ELSE FallbackSpeechRecognition([w EXCEPT !.isMicActive = TRUE], srSupported)

HandleMicPress ==
    /\ IsIO /\ viewMounted
    /\ \E c \in CapIds, srSupported \in BOOLEAN :
         /\ isMicActive \/ FreeCapturer(c)
         /\ Commit(OnMicPress(Cur, c, srSupported))

\* getUserMedia resolves: PCMCapturer.start() runs to its end, then handleMicPress
\* stores the capturer in the ref.
CapturerStarted ==
    /\ IsIO
    /\ \E c \in CapIds :
         /\ capturers[c] = "starting"
         /\ Commit([Cur EXCEPT !.capturers[c] = "running", !.pcmCapturerRef = c])

\* getUserMedia rejects: the catch of handleMicPress.
CapturerFailed ==
    /\ IsIO
    /\ \E c \in CapIds, srSupported \in BOOLEAN :
         /\ capturers[c] = "starting"
         /\ Commit(FallbackSpeechRecognition(
                     [Cur EXCEPT !.capturers[c] = "stopped",
                                 !.isLiveEnabled = FALSE,
                                 !.isMicActive = FALSE], srSupported))

\* The conversation view leaves the screen.  Its init effect returns no cleanup:
\* neither the session nor the capturer is touched.
ViewUnmount ==
    /\ IsIO /\ viewMounted /\ connectResult # "none"
    /\ Commit([Cur EXCEPT !.viewMounted = FALSE])

\* The server's 'status' event that acknowledges the session as ready.
ReadyMsg == [status |-> "connected", error |-> FALSE, ready |-> TRUE]

\* The bridge acknowledges the session, once.
ServerReady == readyAcks = 0 /\ StatusDelivered(ReadyMsg)

\* The owner tears the session down: the first disconnect().
Teardown == ~intentionalDisconnect /\ Disconnect

\* ------------------------------------------------ ws build: the session

IsWS == variant = "ws"

\* stopAudio (ws, sdk): the audio context is closed and dropped.
StopAudio(w) == [w EXCEPT !.ctxState = "none"]

\* send: written to the socket only while it is OPEN.
Send(w, msg, call) ==
    IF w.sockRef /\ w.sockState = "open"
      THEN [w EXCEPT !.wire = Append(@, msg), !.wireCalls = Append(@, call)]
      ELSE w

SendSetup(w) == Send(w, "setup", 0)

\* connect(): without an API key only the error callback fires.
ConnectWS(w, hasKey) ==
    IF ~hasKey
      THEN [OnError(w, "nokey") EXCEPT !.connectResult = "false"]
      ELSE [SetStatus(w, "connecting")
               EXCEPT !.sockRef = TRUE, !.sockState = "opening", !.connectResult = "pending"]

WsConnect ==
    /\ IsWS /\ connectResult = "none" /\ statusLog = << >>
    /\ \E hasKey \in BOOLEAN : Commit(ConnectWS(Cur, hasKey))

\* A faulty variant of OnWsOpen, kept for comparison: the setup message is left
\* to be sent later.
OnWsOpen_NoSetup(w) == Resolve([w EXCEPT !.sockState = "open"], TRUE)

\* ws.onopen: sendSetup(), then resolve(true).
OnWsOpen(w) == Resolve(SendSetup([w EXCEPT !.sockState = "open"]), TRUE)

WsOpen ==
    /\ IsWS /\ sockState = "opening"
    /\ Commit(OnWsOpen(Cur))

WsMessageKinds == {"malformed", "setupComplete", "content", "interrupted"}

\* A faulty variant of HandleMessage, kept for comparison: an unparseable frame
\* is reported as an error.
HandleMessage_FatalFrame(w, kind) ==
    IF kind = "malformed" THEN SetStatus(OnError(w, "transport"), "error")
    ELSE IF kind = "setupComplete" /\ ~w.setupSent
      THEN SetStatus([w EXCEPT !.setupSent = TRUE], "connected")
    ELSE IF kind = "interrupted" THEN StopAudio(w)
    ELSE w

\* A faulty variant of HandleMessage, kept for comparison: every setupComplete is answered with the setup message.
HandleMessage_ResendsSetup(w, kind) ==
    IF kind = "malformed" THEN w
    ELSE IF kind = "setupComplete"
      THEN SetStatus(SendSetup([w EXCEPT !.setupSent = TRUE]), "connected")
    ELSE IF kind = "interrupted" THEN StopAudio(w)
    ELSE w

\* handleMessage: an unparseable frame is dropped; the first setupComplete sets the
\* flag and the status; a later one falls through to the content branches, which
\* find no serverContent in it.
HandleMessage(w, kind) ==
    IF kind = "malformed" THEN w
    ELSE IF kind = "setupComplete" /\ ~w.setupSent
      THEN SetStatus([w EXCEPT !.setupSent = TRUE], "connected")
    ELSE IF kind = "interrupted" THEN StopAudio(w)
    ELSE w

\* ws.onmessage.  The provider answers the setup message with setupComplete and
\* sends content only after it.
WsMessage ==
    /\ IsWS /\ sockState = "open" /\ CanLog
    /\ \E kind \in WsMessageKinds :
         /\ kind = "setupComplete" => readyAcks < MaxAcks
         /\ kind \in {"content", "interrupted"} => readyAcks > 0
         /\ kind = "malformed" => badFrames < MaxBadFrames
         /\ Commit(HandleMessage(
                     [Cur EXCEPT !.readyAcks = IF kind = "setupComplete" THEN @ + 1 ELSE @,
                                 !.badFrames = IF kind = "malformed" THEN @ + 1 ELSE @],
                     kind))

\* ws.onerror.  The browser fires error and then close when the connection fails,
\* also when close() is called on a socket that is still connecting.
OnWsError(w) ==
    Resolve(SetStatus(OnError([w EXCEPT !.sockState = IF @ = "aborting" THEN "closed" ELSE "failed"],
                              "transport"), "error"), FALSE)

WsError ==
    /\ IsWS /\ sockState \in {"opening", "open", "aborting"} /\ CanLog
    /\ Commit(OnWsError(Cur))

\* ws.onclose: after an error, or when the provider closes the open connection.
OnWsClose(w) ==
    LET w1 == [w EXCEPT !.sockState = "closed"]
    IN  Resolve(IF w1.status \in {"connecting", "connected"}
                  THEN SetStatus(w1, "disconnected") ELSE w1,
                FALSE)

WsClose ==
    /\ IsWS /\ sockState \in {"open", "failed"} /\ CanLog
    /\ Commit(OnWsClose(Cur))

\* sendText of the ws build.
SendTextWS(w, call) ==
    IF ~w.sockRef \/ w.sockState # "open" THEN w ELSE Send(w, "text", call)

WsSendText ==
    /\ IsWS /\ CanSend
    /\ Commit(SendTextWS(Called(Cur), sendCalls + 1))

\* sendAudioChunk of the ws build.
SendAudioChunkWS(w, call) ==
    IF ~w.sockRef \/ w.sockState # "open" THEN w ELSE Send(w, "audio", call)

WsSendAudioChunk ==
    /\ IsWS /\ CanSend
    /\ Commit(SendAudioChunkWS(Called(Cur), sendCalls + 1))

\* disconnect() of the ws build: onclose is detached before close().
DisconnectWS(w) ==
    LET w1 == IF w.sockRef
                THEN [w EXCEPT !.sockState = CASE @ = "opening" -> "aborting"
                                               [] @ \in {"open", "failed"} -> "closed"
                                               [] OTHER -> @,
                               !.sockRef = FALSE]
                ELSE w
    IN  SetStatus(StopAudio(w1), "disconnected")

WsDisconnect ==
    /\ IsWS /\ connectResult # "none" /\ Len(statusLog) < MaxStatusLog
    /\ Commit(DisconnectWS(Cur))

\* ------------------------------------------------ sdk build: the session

IsSDK == variant = "sdk"

\* connect() up to await ai.live.connect(...): this.session stays null until the
\* await returns.
ConnectSDK(w, hasKey) ==
    IF ~hasKey
      THEN [OnError(w, "nokey") EXCEPT !.connectResult = "false"]
      ELSE [SetStatus(w, "connecting") EXCEPT !.sockState = "opening", !.connectResult = "pending"]

SdkConnect ==
    /\ IsSDK /\ connectResult = "none" /\ statusLog = << >>
    /\ \E hasKey \in BOOLEAN : Commit(ConnectSDK(Cur, hasKey))

\* callbacks.onopen, called by the SDK when its WebSocket opens; the SDK then
\* writes the setup message and returns the session, and connect() returns true.
OnSdkOpen(w) ==
    LET w1 == SetStatus([w EXCEPT !.sockState = "open"], "connected")
    IN  Resolve([w1 EXCEPT !.wire = Append(@, "setup"), !.wireCalls = Append(@, 0),
                           !.sockRef = TRUE], TRUE)

SdkOpen ==
    /\ IsSDK /\ sockState = "opening" /\ CanLog
    /\ Commit(OnSdkOpen(Cur))

\* ai.live.connect throws: the catch of connect().
SdkConnectCatch(w) ==
    Resolve(SetStatus(OnError([w EXCEPT !.sockState = "closed"], "connect_failed"), "error"), FALSE)

SdkConnectRejects ==
    /\ IsSDK /\ sockState = "opening" /\ CanLog
    /\ Commit(SdkConnectCatch(Cur))

\* callbacks.onerror.
OnSdkError(w) == SetStatus(OnError([w EXCEPT !.sockState = "failed"], "transport"), "error")

SdkError ==
    /\ IsSDK /\ sockState \in {"opening", "open"} /\ CanLog
    /\ Commit(OnSdkError(Cur))

\* callbacks.onclose: after an error, when the provider closes the connection, and
\* when session.close() completes.
OnSdkClose(w) == SetStatus([w EXCEPT !.sockState = "closed"], "disconnected")

SdkClose ==
    /\ IsSDK /\ sockState \in {"open", "failed", "closing"} /\ CanLog
    /\ Commit(OnSdkClose(Cur))

SdkMessageKinds == {"setupComplete", "content", "interrupted"}

\* handleMessage of the sdk build: it has no branch for setupComplete.
HandleMessageSDK(w, kind) == IF kind = "interrupted" THEN StopAudio(w) ELSE w

SdkMessage ==
    /\ IsSDK /\ sockState = "open"
    /\ \E kind \in SdkMessageKinds :
         /\ kind = "setupComplete" => readyAcks < MaxAcks
         /\ kind \in {"content", "interrupted"} => readyAcks > 0
         /\ Commit(HandleMessageSDK(
                     [Cur EXCEPT !.readyAcks = IF kind = "setupComplete" THEN @ + 1 ELSE @],
                     kind))

\* session.sendClientContent / sendRealtimeInput: the SDK writes to its WebSocket,
\* which discards what is written after it has closed.
SessionSend(w, msg, call) ==
    IF w.sockState = "open"
      THEN [w EXCEPT !.wire = Append(@, msg), !.wireCalls = Append(@, call)]
      ELSE w

\* sendText of the sdk build.
SendTextSDK(w, call) == IF ~w.sockRef THEN w ELSE SessionSend(w, "text", call)

SdkSendText ==
    /\ IsSDK /\ CanSend
    /\ Commit(SendTextSDK(Called(Cur), sendCalls + 1))

\* sendAudioChunk of the sdk build.
SendAudioChunkSDK(w, call) == IF ~w.sockRef THEN w ELSE SessionSend(w, "audio", call)

SdkSendAudioChunk ==
    /\ IsSDK /\ CanSend
    /\ Commit(SendAudioChunkSDK(Called(Cur), sendCalls + 1))

\* disconnect() of the sdk build: the callbacks stay attached.
DisconnectSDK(w) ==
    LET w1 == IF w.sockRef
                THEN [w EXCEPT !.sockState = IF @ = "open" THEN "closing" ELSE @,
                               !.sockRef = FALSE]
                ELSE w
    IN  SetStatus(w1, "disconnected")

SdkDisconnect ==
    /\ IsSDK /\ connectResult # "none" /\ Len(statusLog) < MaxStatusLog
    /\ Commit(DisconnectSDK(Cur))

\* ------------------------------------------------------ risk tags in text

\* The first index k >= i with t[k] in S, or 0.
FirstOf(t, i, S) ==
    LET ks == {k \in i..Len(t) : t[k] \in S}
    IN  IF ks = {} THEN 0 ELSE CHOOSE k \in ks : \A l \in ks : k <= l

\* The closing brace of a match of /\[RISK_DATA:({[^}]+})\]/ that starts at i, or 0.
MatchEnd(t, i) ==
    IF i + 1 <= Len(t) /\ t[i] = "T" /\ t[i + 1] = "{"
      THEN LET j == FirstOf(t, i + 2, {"}"})
           IN  IF j >= i + 3 /\ j + 1 <= Len(t) /\ t[j + 1] = "]" THEN j ELSE 0
      ELSE 0

\* text.match(...): where the first match starts, or 0.
RiskMatch(t) ==
    LET is == {i \in 1..Len(t) : MatchEnd(t, i) # 0}
    IN  IF is = {} THEN 0 ELSE CHOOSE i \in is : \A l \in is : i <= l

IsMember(c) == c \in RiskMembers

\* JSON.parse of "{" body "}": white space is skipped, anything that is
\* neither a member nor white space makes it throw.
JsonParses(body) == \A k \in 1..Len(body) : body[k] \in RiskMembers \cup {" "}

\* The key and the value a member stands for.
MemberKey(c) ==
    CASE c \in {"h", "H"} -> "headache"
      [] c = "b" -> "bleeding"
      [] c = "v" -> "blurredVision"
      [] c = "s" -> "swelling"
      [] c = "p" -> "highBP"
      [] c = "f" -> "fever"
      [] c = "m" -> "reducedMovement"
      [] c \in {"d", "D"} -> "daysPregnant"

MemberValue(c) ==
    CASE c = "h" -> 2
      [] c = "H" -> 3
      [] c = "s" -> 2
      [] c = "d" -> LATE_GESTATION
      [] c = "D" -> 100
      [] OTHER -> 1

\* The RiskData object JSON.parse builds from the members: a later member
\* overrides an earlier one of the same key.
RECURSIVE RiskDataOf(_)
RiskDataOf(fields) ==
    IF fields = << >> THEN EmptyRisk
    ELSE [RiskDataOf(SubSeq(fields, 1, Len(fields) - 1))
            EXCEPT ![MemberKey(fields[Len(fields)])] = MemberValue(fields[Len(fields)])]

JsonParse(body) == [parsed |-> TRUE, fields |-> SelectSeq(body, IsMember)]

\* text.replace(/\[RISK_DATA:[^\]]+\]/g, ''), from index i on.
RECURSIVE StripTags(_, _)
StripTags(t, i) ==
    IF i > Len(t) THEN << >>
    ELSE IF t[i] = "T" /\ FirstOf(t, i + 1, {"]"}) >= i + 2
      THEN StripTags(t, FirstOf(t, i + 1, {"]"}) + 1)
      ELSE <<t[i]>> \o StripTags(t, i + 1)

\* String.prototype.trim.
RECURSIVE Trim(_)
Trim(t) ==
    IF t = << >> THEN t
    ELSE IF Head(t) = " " THEN Trim(Tail(t))
    ELSE IF t[Len(t)] = " " THEN Trim(SubSeq(t, 1, Len(t) - 1))
    ELSE t

\* A faulty variant of ExtractRiskFromText, kept for comparison: only the tag
\* that was parsed is cut out.
ExtractRiskFromText_CutsFirst(t) ==
    LET i == RiskMatch(t)
        body == SubSeq(t, i + 2, MatchEnd(t, i) - 1)
        cut == SubSeq(t, 1, i - 1) \o SubSeq(t, MatchEnd(t, i) + 2, Len(t))
    IN  IF i = 0 THEN [cleanText |-> t, riskData |-> NoRisk]
        ELSE IF JsonParses(body)
          THEN [cleanText |-> cut, riskData |-> JsonParse(body)]
          ELSE [cleanText |-> Trim(StripTags(t, 1)), riskData |-> NoRisk]

\* extractRiskFromText (AppLayout) and extractRiskData (the REST helper): the
\* same code.
ExtractRiskFromText(t) ==
    LET i == RiskMatch(t)
        body == SubSeq(t, i + 2, MatchEnd(t, i) - 1)
    IN  IF i = 0 THEN [cleanText |-> t, riskData |-> NoRisk]
        ELSE IF JsonParses(body)
          THEN [cleanText |-> Trim(StripTags(t, 1)), riskData |-> JsonParse(body)]
          ELSE [cleanText |-> Trim(StripTags(t, 1)), riskData |-> NoRisk]

\* What the provider produces in one step: a character, or a whole tag.
Pieces ==
    {<<c>> : c \in Tokens} \cup {<<"T", "{", "h", "}", "]">>, <<"T", "{", "h", "b", "}", "]">>}

\* The provider produces the next piece of a text.
Produce ==
    /\ ~extracted /\ typed < MaxPieces
    /\ \E p \in Pieces : Commit([Cur EXCEPT !.text = @ \o p, !.typed = @ + 1])

\* extractRiskFromText is applied to the text produced.
Extract ==
    /\ ~extracted
    /\ Commit([Cur EXCEPT !.extracted = TRUE,
                          !.cleanText = ExtractRiskFromText(text).cleanText,
                          !.riskData = ExtractRiskFromText(text).riskData])

FlagNames(flags) == [k \in 1..Len(flags) |-> flags[k].name]

\* handleRiskData(r) of the view, user being the currentUser its closure holds:
\* the record is merged into the cumulative data, the risk is calculated anew
\* (without history) and, if it requires an alert and a user is signed in, the
\* patient's alert is saved.
HandleRiskData(w, r, user) ==
    LET merged == MergeRiskData(w.cumulativeRiskData, RiskDataOf(r.fields))
        assessment == CalculateRisk(merged, FALSE)
        w1 == [w EXCEPT !.riskLog = Append(@, r.fields),
                        !.cumulativeRiskData = merged,
                        !.currentRisk = assessment]
    IN  IF assessment.requiresAlert /\ user # NoUser
          THEN SaveLivePatientAlert(w1, [patientId |-> user,
                                         riskScore |-> assessment.score,
                                         riskLevel |-> assessment.level,
                                         symptoms |-> FlagNames(assessment.flags)])
          ELSE w1

\* The text has just been parsed for a risk tag (not part of the program's state:
\* kept to state what was parsed).
Parsed(w, r) == IF r.parsed THEN [w EXCEPT !.parsedLog = Append(@, r.fields)] ELSE w

\* onTextMessage of the view (AppLayout and VoiceInterface: the same code).  The
\* clean text goes into the entry the partial-message id names, which is made
\* from the clock if the ref is null and appended if no entry has that id.
OnTextMessage(w, t) ==
    LET x  == ExtractRiskFromText(t)
        w1 == Parsed([w EXCEPT !.textEvents = @ + 1], x.riskData)
        msgId == IF w1.partialMessageIdRef # 0 THEN w1.partialMessageIdRef ELSE w1.dateNow
        entry == [id |-> msgId, shows |-> w1.textEvents]
        existing == \E k \in 1..Len(w1.messages) : w1.messages[k].id = msgId
        w2 == [w1 EXCEPT !.partialMessageIdRef = msgId,
                         !.messages = IF existing
                                        THEN [k \in 1..Len(w1.messages) |->
                                                IF w1.messages[k].id = msgId THEN entry
                                                ELSE w1.messages[k]]
                                        ELSE Append(@, entry),
                         !.liveMessage = w1.textEvents,
                         !.textTurns = @ \cup {w1.turn}]
    IN  IF x.cleanText = << >> THEN w1
        ELSE IF x.riskData.parsed THEN HandleRiskData(w2, x.riskData, w.liveUser) ELSE w2

\* onTurnComplete of the view: the partial-message id is cleared; the mic flag
\* is not written.
OnTurnComplete(w) == [w EXCEPT !.partialMessageIdRef = 0, !.turn = @ + 1]

\* The texts the provider sends to a view.
FeedTexts ==
    { <<"a">>, <<" ">>,
      <<"T", "{", "h", "}", "]">>, <<"T", "{", "b", "}", "]">>,
      <<"a", " ", "T", "{", "h", "}", "]">>, <<"T", "{", "b", "}", "]", "a">>,
      <<"a", "T", "{", "a", "}", "]">>, <<"T", "{", "h", "}", "]", "T", "{", "b", "}", "]", "a">> }

\* The live session delivers a text event, ms milliseconds after the last event.
TextMessageFrom(texts) ==
    /\ textEvents < MaxTexts
    /\ \E t \in texts, ms \in 0..1 :
         /\ dateNow + ms <= MaxDateNow
         /\ Commit(OnTextMessage([Cur EXCEPT !.dateNow = @ + ms], t))

TextMessage == TextMessageFrom(FeedTexts)

\* The texts of a spoken turn: shown, or blank once cleaned.
TurnTexts == { <<"a">>, <<" ">> }
NoText    == << >>

\* The callbacks handleMessage of the ws build makes on a serverContent frame, in
\* the order of its branches: the text of a model part, the output
\* transcription, turnComplete, the top-level text; an absent or empty text is
\* skipped.
TurnCompleteEvent == <<"turnComplete">>

FrameEvents(partText, outputTrans, turnComplete, topText) ==
    (IF partText # NoText THEN <<partText>> ELSE << >>)
      \o (IF outputTrans # NoText THEN <<outputTrans>> ELSE << >>)
      \o (IF turnComplete THEN <<TurnCompleteEvent>> ELSE << >>)
      \o (IF topText # NoText THEN <<topText>> ELSE << >>)

\* The view's callbacks run one after the other, in one synchronous handler.
RECURSIVE Callbacks(_, _)
Callbacks(w, events) ==
    IF events = << >> THEN w
    ELSE Callbacks(IF Head(events) = TurnCompleteEvent
                     THEN OnTurnComplete(w)
                     ELSE OnTextMessage(w, Head(events)),
                   Tail(events))

OnServerContent(w, partText, outputTrans, turnComplete, topText) ==
    Callbacks(w, FrameEvents(partText, outputTrans, turnComplete, topText))

TextCount(partText, outputTrans, topText) ==
    Cardinality({k \in 1..3 : <<partText, outputTrans, topText>>[k] # NoText})

\* The provider's next content frame reaches the view, ms milliseconds after the
\* last one: the handler reads the clock when a text starts a new entry.
ServerContent ==
    /\ IsWS
    /\ \E partText, outputTrans, topText \in TurnTexts \cup {NoText},
          turnComplete \in BOOLEAN, ms \in 0..1 :
         /\ textEvents + TextCount(partText, outputTrans, topText) <= MaxTexts
         /\ turnComplete => turn < MaxTurns
         /\ turnComplete \/ TextCount(partText, outputTrans, topText) > 0
         /\ dateNow + ms <= MaxDateNow
         /\ Commit(OnServerContent([Cur EXCEPT !.dateNow = @ + ms],
                                    partText, outputTrans, turnComplete, topText))

\* sendMessageToMIMI with raw as the provider's reply: the REST helper extracts
\* once and returns the cleaned text with the record.
SendMessageToMIMI(raw) ==
    [text |-> ExtractRiskFromText(raw).cleanText, riskData |-> ExtractRiskFromText(raw).riskData]

\* handleSendMessage on the REST path, the user's text being long if it has more
\* than 5 characters: a session is started if the view holds none; after the
\* reply the text is extracted again from the cleaned text, the user's message
\* and the reply are stored in the view's session, and both records are handed
\* over.
OnRestReply(w, raw, long) ==
    LET w0 == IF w.currentSession = NoSession
                THEN [StartConversationSession(w, SessionUserId(w))
                        EXCEPT !.currentSession = NewSession(w, SessionUserId(w))]
                ELSE w
        response == SendMessageToMIMI(raw)
        x  == ExtractRiskFromText(response.text)
        s1 == WithMessage(w0.currentSession, "user", long)
        s2 == WithMessage(s1, "assistant", Len(x.cleanText) > 5)
        w1 == Parsed(Parsed([w0 EXCEPT !.textEvents = @ + 1], response.riskData), x.riskData)
        w2 == [SaveConversationSession(SaveConversationSession(w1, s1), s2)
                 EXCEPT !.currentSession = s2,
                        !.talked = IF long /\ w.currentUser # NoUser
                                     THEN [@ EXCEPT ![w.currentUser] = s2.id] ELSE @]
        w3 == IF response.riskData.parsed
                THEN HandleRiskData(w2, response.riskData, w.currentUser) ELSE w2
    IN  IF x.riskData.parsed THEN HandleRiskData(w3, x.riskData, w.currentUser) ELSE w3

\* The REST reply to a message sent while the live session is not used.
RestReplyFrom(texts) ==
    /\ textEvents < MaxTexts /\ ~(isLiveEnabled /\ status = "connected")
    /\ \E t \in texts, long \in BOOLEAN : Commit(OnRestReply(Cur, t, long))

RestReply == RestReplyFrom(FeedTexts)

\* The texts that carry one well-formed risk tag after a character.
RiskTags ==
    { <<"h">>, <<"h", "f">>, <<"H", "p">>, <<"H", "p", "m">>, <<"b">>, <<"v">>, <<"s">>, <<"d">> }

RiskTexts == { <<"a", "T", "{">> \o f \o <<"}", "]">> : f \in RiskTags }

\* The records handleRiskData is called with in SpecMerge: one symptom at two
\* severities, another symptom, the gestational age at two values, two members,
\* and none.
MergeTags == { << >>, <<"h">>, <<"H">>, <<"b">>, <<"d">>, <<"D">>, <<"H", "d">> }

\* handleRiskData(riskData), called by the text callbacks with a parsed record.
RiskUpdate ==
    /\ Len(riskLog) < MaxTexts
    /\ \E f \in MergeTags :
         Commit(HandleRiskData(Cur, [parsed |-> TRUE, fields |-> f], liveUser))

\* A risk update of a conversation: on the live path, or as a REST reply.
RiskText  == TextMessageFrom(RiskTexts)
RiskReply == RestReplyFrom(RiskTexts)

\* A REST reply in plain conversation.
ChatTexts == { <<"a">>, <<"a", "T", "{", "h", "}", "]">> }

ChatReply == RestReplyFrom(ChatTexts)

\* calculateRisk is applied to arguments of any severities.
ApplyCalculateRisk ==
    /\ ~calc.applied
    /\ \E rd \in RiskInputs, previousHighRisk \in BOOLEAN :
         Commit([Cur EXCEPT !.calc = [applied |-> TRUE, riskData |-> rd,
                                      previousHighRisk |-> previousHighRisk,
                                      result |-> CalculateRisk(rd, previousHighRisk)]])

\* handleLogout in another tab of the browser: clearSession removes the current
\* user id, and the next render of this view reads null.
LoggedOutElsewhere ==
    /\ currentUser # NoUser
    /\ Commit([Cur EXCEPT !.currentUser = NoUser])

\* The patients the alert store is called for, and the alerts passed to it.
Patients == Users \cup {"ngozi"}

StoreAlerts ==
    {[patientId |-> p, riskScore |-> n, riskLevel |-> LevelOf(n, << >>), symptoms |-> y] :
        p \in Patients, n \in {45, 70}, y \in {<< >>, <<"Severe headache">>}}

\* A caller saves an alert: saveLivePatientAlert(a).
SaveAlert(a) == Commit(SaveLivePatientAlert(Cur, a))

\* The dashboard clears a patient's alert: clearLiveAlert(p).
ClearAlert(p) == Commit(ClearLiveAlert(Cur, p))

SaveAnyAlert == \E a \in StoreAlerts : Len(liveAlerts) <= MaxAlerts /\ SaveAlert(a)

ClearAnyAlert == \E p \in Patients : ClearAlert(p)

\* ------------------------------------- GeminiLiveBridge (server), socketio

\* clientSocket.emit(...) while the bridge handles upstream event number at
\* (0: outside any upstream event).
BrEmit(w, msg, at) ==
    [w EXCEPT !.emitted = Append(@, msg), !.emittedAt = Append(@, at)]

\* connect() up to the first authTokens.create call.
BridgeConnectStart(w) ==
    [w EXCEPT !.brPhase = "token", !.retries = TOKEN_RETRIES, !.tokenResult = "null"]

\* The server starts a bridge for the client whose socket has connected.
BridgeConnect ==
    /\ IsIO /\ brPhase = "idle" /\ sockState = "open"
    /\ Commit(BridgeConnectStart(Cur))

\* The catch of connect().
ConnectCatch(w) ==
    BrEmit([w EXCEPT !.brPhase = "failed"], "status:Connection Error", 0)

\* A faulty variant of AfterTokenLoop, kept for comparison: a token obtained on a
\* retry is thrown away.
AfterTokenLoop_FirstTryOnly(w) ==
    IF w.tokenResult # "named" \/ w.retries < TOKEN_RETRIES
      THEN ConnectCatch(w)
      ELSE [w EXCEPT !.brPhase = "connecting", !.upstream = "opening"]

\* After the retry loop: without a named token connect() throws, with one it
\* calls live.connect.
AfterTokenLoop(w) ==
    IF w.tokenResult # "named"
      THEN ConnectCatch(w)
      ELSE [w EXCEPT !.brPhase = "connecting", !.upstream = "opening"]

\* The while condition of the retry loop.
TokenLoop(w) ==
    IF w.retries > 0 /\ w.tokenResult = "null"
      THEN [w EXCEPT !.brPhase = "token"]
      ELSE AfterTokenLoop(w)

\* authTokens.create resolves with res: tokenResult is assigned, break.
OnTokenResolved(w, res) ==
    AfterTokenLoop([w EXCEPT !.tokenResult = res, !.tokenLog = Append(@, res)])

TokenResolved ==
    /\ brPhase = "token"
    /\ \E res \in {"named", "unnamed", "null"} : Commit(OnTokenResolved(Cur, res))

\* A faulty variant of OnTokenRejected, kept for comparison: retries is not
\* decremented.
OnTokenRejected_NoDecrement(w) ==
    LET w1 == [w EXCEPT !.tokenLog = Append(@, "fail")]
    IN  IF w1.retries > 0
          THEN [w1 EXCEPT !.brPhase = "backoff", !.pauses = Append(@, TOKEN_BACKOFF)]
          ELSE ConnectCatch(w1)

\* authTokens.create rejects: the catch inside the loop.
OnTokenRejected(w) ==
    LET w1 == [w EXCEPT !.tokenLog = Append(@, "fail"), !.retries = @ - 1]
    IN  IF w1.retries > 0
          THEN [w1 EXCEPT !.brPhase = "backoff", !.pauses = Append(@, TOKEN_BACKOFF)]
          ELSE ConnectCatch(w1)

TokenRejected ==
    /\ brPhase = "token" /\ Len(tokenLog) <= TOKEN_RETRIES
    /\ Commit(OnTokenRejected(Cur))

\* The 1000 ms timer of the loop fires.
BackoffElapsed ==
    /\ brPhase = "backoff"
    /\ Commit(TokenLoop(Cur))

\* The server tells the client that the bridge is ready, right after connect()
\* returned with a session.
ServerAnnouncesReady(w) == BrEmit(w, "status:ready", 0)

\* live.connect resolves: this.session is set, and the (empty) 'disconnect'
\* handler is registered on clientSocket.
OnLiveConnected(w) ==
    [w EXCEPT !.session = TRUE, !.upstream = "open", !.brPhase = "up"]

LiveConnected ==
    /\ brPhase = "connecting" /\ upstream = "opening"
    /\ Commit(ServerAnnouncesReady(OnLiveConnected(Cur)))

\* live.connect rejects.
LiveConnectRejected ==
    /\ brPhase = "connecting" /\ upstream = "opening"
    /\ Commit(ConnectCatch([Cur EXCEPT !.upstream = "closed"]))

\* What the provider sends: a message is malformed (null, so that reading
\* response.serverContent throws) or carries audio parts and flags.
UpstreamMsg(a, t, i, s1, s2) ==
    [kind |-> "message", malformed |-> FALSE, audio |-> a, turnComplete |-> t,
     interrupted |-> i, activityStart |-> s1, activityEnd |-> s2]

UpstreamMsgs ==
    { UpstreamMsg(1, FALSE, FALSE, FALSE, FALSE),
      UpstreamMsg(2, TRUE, FALSE, FALSE, FALSE),
      UpstreamMsg(0, TRUE, FALSE, FALSE, FALSE),
      UpstreamMsg(0, FALSE, TRUE, FALSE, FALSE),
      UpstreamMsg(1, TRUE, TRUE, FALSE, FALSE),
      UpstreamMsg(0, FALSE, FALSE, TRUE, FALSE),
      UpstreamMsg(0, FALSE, FALSE, FALSE, TRUE),
      UpstreamMsg(0, FALSE, FALSE, FALSE, FALSE),
      [UpstreamMsg(0, FALSE, FALSE, FALSE, FALSE) EXCEPT !.malformed = TRUE] }

RECURSIVE EmitAudio(_, _, _)
EmitAudio(w, n, at) ==
    IF n = 0 THEN w ELSE EmitAudio(BrEmit(w, "audio-output", at), n - 1, at)

\* A faulty variant of HandleGeminiMessage, kept for comparison: an interruption
\* is relayed only when the message carries no audio.
HandleGeminiMessage_HoldsInterrupt(w, m, at) ==
    IF m.malformed THEN w
    ELSE LET w1 == EmitAudio(w, m.audio, at)
             w2 == IF m.turnComplete THEN BrEmit(w1, "turn-complete", at) ELSE w1
             w3 == IF m.interrupted /\ m.audio = 0 THEN BrEmit(w2, "interrupted", at) ELSE w2
             w4 == IF m.activityStart THEN BrEmit(w3, "user-speech-start", at) ELSE w3
         IN  IF m.activityEnd THEN BrEmit(w4, "user-speech-end", at) ELSE w4

\* handleGeminiMessage: a message that makes it throw is caught and logged.
HandleGeminiMessage(w, m, at) ==
    IF m.malformed THEN w
    ELSE LET w1 == EmitAudio(w, m.audio, at)
             w2 == IF m.turnComplete THEN BrEmit(w1, "turn-complete", at) ELSE w1
             w3 == IF m.interrupted THEN BrEmit(w2, "interrupted", at) ELSE w2
             w4 == IF m.activityStart THEN BrEmit(w3, "user-speech-start", at) ELSE w3
         IN  IF m.activityEnd THEN BrEmit(w4, "user-speech-end", at) ELSE w4

\* callbacks.onmessage of the bridge.
UpstreamMessageFrom(msgs) ==
    /\ upstream = "open" /\ Len(upstreamLog) < MaxUpstream
    /\ \E m \in msgs :
         Commit(HandleGeminiMessage([Cur EXCEPT !.upstreamLog = Append(@, m)], m,
                                    Len(upstreamLog) + 1))

UpstreamMessage == UpstreamMessageFrom(UpstreamMsgs)

\* The provider's messages of a spoken turn: audio, the end of the turn, an
\* interruption.
TurnMsgs ==
    { UpstreamMsg(2, TRUE, FALSE, FALSE, FALSE),
      UpstreamMsg(0, FALSE, TRUE, FALSE, FALSE) }

UpstreamTurn == UpstreamMessageFrom(TurnMsgs)

\* callbacks.onerror of the bridge.
UpstreamError ==
    /\ upstream = "open" /\ Len(upstreamLog) < MaxUpstream
    /\ Commit(BrEmit([Cur EXCEPT !.upstreamLog = Append(@, [kind |-> "error"])],
                     "status:Gemini Error", Len(upstreamLog) + 1))

\* callbacks.onclose of the bridge: the provider session has closed.
UpstreamClose ==
    /\ upstream = "open" /\ Len(upstreamLog) < MaxUpstream
    /\ Commit(BrEmit([Cur EXCEPT !.upstreamLog = Append(@, [kind |-> "close"]),
                                 !.upstream = "closed"],
                     "status:Gemini Disconnected", Len(upstreamLog) + 1))

\* clientSocket.on('disconnect'): the handler tests this.session and does nothing.
\* Before live.connect has resolved no handler is registered at all.
OnClientDisconnect(w) == w

ClientDisconnect ==
    /\ brPhase # "idle" /\ ~clientGone
    /\ Commit(OnClientDisconnect(
                 [OnSocketDisconnect(Cur) EXCEPT !.clientGone = TRUE]))

\* The 'status' event as the client's handler sees it.
StatusOf(e) ==
    [status |-> "none",
     error  |-> e \in {"status:Gemini Error", "status:Connection Error"},
     ready  |-> e = "status:ready"]

IsStatusEvent(e) ==
    e \in {"status:Gemini Error", "status:Connection Error", "status:Gemini Disconnected",
           "status:ready"}

\* The next 'status' event of the relay reaches the client, whose socket is open.
StatusRelayed ==
    /\ IsIO /\ sockState = "open" /\ delivered < Len(emitted)
    /\ IsStatusEvent(emitted[delivered + 1])
    /\ Commit(OnStatus([Cur EXCEPT !.delivered = @ + 1,
                                   !.readyAcks = IF IsReadyAck(StatusOf(emitted[delivered + 1]))
                                                   THEN @ + 1 ELSE @],
                       StatusOf(emitted[delivered + 1])))

\* session.sendRealtimeInput / sendClientContent: the provider session takes what
\* is written while it is open.
ProviderWrite(w, msg, call) ==
    IF w.upstream = "open"
      THEN [w EXCEPT !.upstreamIn = Append(@, [msg |-> msg, call |-> call])]
      ELSE w

\* A faulty variant of SendAudioInput, kept for comparison: the newest frame
\* overtakes the frames written before it.
SendAudioInput_Overtakes(w, call) ==
    IF w.session /\ w.upstream = "open"
      THEN [w EXCEPT !.upstreamIn = <<[msg |-> "audio", call |-> call]>> \o @]
      ELSE w

\* sendAudioInput of the bridge.
SendAudioInput(w, call) == IF w.session THEN ProviderWrite(w, "audio", call) ELSE w

\* sendTextInput of the bridge.
SendTextInput(w, call) == IF w.session THEN ProviderWrite(w, "text", call) ELSE w

\* The server hands the client's next 'audio-input' or 'text-input' event to the
\* bridge.
InputRouted ==
    /\ IsIO /\ brPhase # "idle" /\ routed < Len(wire)
    /\ Commit(IF wire[routed + 1] = "audio"
                THEN SendAudioInput([Cur EXCEPT !.routed = @ + 1], wireCalls[routed + 1])
                ELSE SendTextInput([Cur EXCEPT !.routed = @ + 1], wireCalls[routed + 1]))

\* The client's handler for the relay event e.
OnRelayed(w, e, dur, startsSuspended) ==
    IF IsStatusEvent(e)
      THEN OnStatus([w EXCEPT !.readyAcks = IF IsReadyAck(StatusOf(e)) THEN @ + 1 ELSE @],
                    StatusOf(e))
    ELSE IF e = "audio-output" THEN OnAudioOutput(w, dur, startsSuspended)
    ELSE IF e = "interrupted" THEN StopAllAudio(w)
    ELSE w

\* The next relay event reaches the client, whose socket is open.
Relayed ==
    /\ IsIO /\ sockState = "open" /\ delivered < Len(emitted)
    /\ emitted[delivered + 1] = "audio-output" => audioChunkCount < MaxChunks
    /\ \E dur \in 0..MaxDur, startsSuspended \in BOOLEAN :
         /\ (ctxState # "none" => ~startsSuspended)
         /\ (emitted[delivered + 1] # "audio-output" => (dur = 0 /\ ~startsSuspended))
         /\ Commit(OnRelayed([Cur EXCEPT !.delivered = @ + 1], emitted[delivered + 1],
                             dur, startsSuspended))

\* A running capturer emits a frame: its onChunk hands it to sendAudioChunk of the
\* session the view holds.
CapturerChunk ==
    /\ IsIO /\ sendCalls < MaxSends /\ Len(wire) < MaxWire
    /\ \E c \in CapIds : capturers[c] = "running"
    /\ Commit(SendAudioChunkIO(Called(Cur), sendCalls + 1))

\* handleSendMessage of the view on its live branch: the text is handed to
\* sendText when the live path is enabled and the session is connected.
LiveSendText ==
    /\ IsIO /\ viewMounted /\ sendCalls < MaxSends /\ Len(wire) < MaxWire
    /\ isLiveEnabled /\ status = "connected"
    /\ Commit(SendTextIO(Called(Cur), sendCalls + 1))

\* A page that has just been loaded: every object of the client is new, and only
\* localStorage keeps what it held.
Fresh(w) ==
    [w EXCEPT !.status = "disconnected",
              !.sockRef = FALSE,
              !.sockState = "none",
              !.intentionalDisconnect = FALSE,
              !.connectTimer = "none",
              !.connectResult = "none",
              !.setupSent = FALSE,
              !.audioChunkCount = 0,
              !.ctxState = "none",
              !.pendingResume = << >>,
              !.nextPlayTime = 0,
              !.scheduledSources = << >>,
              !.isSpeaking = FALSE,
              !.speakingTimeout = NoTimer,
              !.speakingCalls = NoCalls,
              !.clock = 0,
              !.src = [i \in ChunkIds |-> NoSource],
              !.played = {},
              !.wire = << >>,
              !.wireCalls = << >>,
              !.sendCalls = 0,
              !.closedCalls = {},
              !.sendBuffer = << >>,
              !.readyAcks = 0,
              !.statusLog = << >>,
              !.errorLog = << >>,
              !.viewMounted = TRUE,
              !.isLiveEnabled = TRUE,
              !.isMicActive = FALSE,
              !.pcmCapturerRef = 0,
              !.capturers = [c \in CapIds |-> "unused"],
              !.textEvents = 0,
              !.liveMessage = 0,
              !.parsedLog = << >>,
              !.riskLog = << >>,
              !.badFrames = 0,
              !.liveUser = NoUser,
              !.cumulativeRiskData = EmptyRisk,
              !.currentRisk = NoAssessment,
              !.currentSession = NoSession,
              !.previousContext = NoContext,
              !.partialMessageIdRef = 0,
              !.messages = << >>,
              !.turn = 0,
              !.textTurns = {}]

\* The user ids found in the browser's storage or in use.
UsedUsers ==
    {currentUser, liveUser} \cup {x.userId : x \in sessionStore}
      \cup {liveAlerts[k].patientId : k \in 1..Len(liveAlerts)}
      \cup {u \in Users : talked[u] # 0}

\* The signed-in user loads the page again, before the session has opened a
\* transport: the view opens anew.
Reload ==
    /\ currentUser # NoUser /\ sockState = "none" /\ dateNow < MaxDateNow
    /\ Commit(OpenView(Fresh([Cur EXCEPT !.dateNow = @ + 1])))

\* After a logout the page is loaded again and another user signs up
\* (handleDetailsSubmit saves the user under a new id): the view opens for her.
Relogin ==
    /\ sockState = "none" /\ dateNow < MaxDateNow
    /\ \E u \in Users \ UsedUsers :
         Commit(OpenView(Fresh([Cur EXCEPT !.currentUser = u, !.dateNow = @ + 1])))

\* ------------------------------------------------------------ specifications

\* Spec: the session's life cycle in each build, with the view and one audio chunk.
Next ==
    \/ Connect
    \/ SocketConnect
    \/ ConnectTimeout
    \/ ServerStatus
    \/ ConnectError
    \/ SocketDisconnect
    \/ Disconnect
    \/ AudioOutputLife
    \/ ResumeResolved
    \/ Interrupted
    \/ Tick
    \/ SourceEnded
    \/ SpeakingTimeoutFires
    \/ HandleMicPress
    \/ CapturerStarted
    \/ CapturerFailed
    \/ ViewUnmount
    \/ WsConnect
    \/ WsOpen
    \/ WsMessage
    \/ WsError
    \/ WsClose
    \/ WsSendText
    \/ WsSendAudioChunk
    \/ WsDisconnect
    \/ SdkConnect
    \/ SdkOpen
    \/ SdkConnectRejects
    \/ SdkError
    \/ SdkClose
    \/ SdkMessage
    \/ SdkDisconnect

Spec == Init /\ [][Next]_vars

\* SpecPlay: the playback scheduler of the socketio build under a burst of audio
\* chunks, interruptions and a teardown.  The handlers left out
\* (timeout, errors, transport loss, the view) do not write the scheduler's fields.
InitPlay == Init /\ variant = "socketio"

NextPlay ==
    \/ Connect
    \/ SocketConnect
    \/ ServerReady
    \/ AudioOutput
    \/ ResumeResolved
    \/ Interrupted
    \/ Tick
    \/ SourceEnded
    \/ SpeakingTimeoutFires
    \/ Teardown

SpecPlay == InitPlay /\ [][NextPlay]_vars

\* SpecWS: the ws build alone, for what it writes to its WebSocket.
InitWS == Init /\ variant = "ws"

NextWS ==
    \/ WsConnect
    \/ WsOpen
    \/ WsMessage
    \/ WsError
    \/ WsClose
    \/ WsSendText
    \/ WsSendAudioChunk
    \/ WsDisconnect

SpecWS == InitWS /\ [][NextWS]_vars

\* SpecSend: the life cycle of each build with the calls that send to the
\* transport, without playback and without the view.
NextSend ==
    \/ Connect
    \/ SocketConnect
    \/ ConnectTimeout
    \/ ServerStatus
    \/ ConnectError
    \/ SocketDisconnect
    \/ Disconnect
    \/ IoSendText
    \/ IoSendAudioChunk
    \/ WsConnect
    \/ WsOpen
    \/ WsMessage
    \/ WsError
    \/ WsClose
    \/ WsSendText
    \/ WsSendAudioChunk
    \/ WsDisconnect
    \/ SdkConnect
    \/ SdkOpen
    \/ SdkConnectRejects
    \/ SdkError
    \/ SdkClose
    \/ SdkMessage
    \/ SdkSendText
    \/ SdkSendAudioChunk
    \/ SdkDisconnect

SpecSend == Init /\ [][NextSend]_vars

\* SpecBridge: the server's bridge between one socketio client and the provider,
\* seen from the bridge.
InitBridge == Init /\ variant = "socketio"

NextBridge ==
    \/ Connect
    \/ SocketConnect
    \/ BridgeConnect
    \/ TokenResolved
    \/ TokenRejected
    \/ BackoffElapsed
    \/ LiveConnected
    \/ LiveConnectRejected
    \/ UpstreamMessage
    \/ UpstreamError
    \/ UpstreamClose
    \/ ClientDisconnect

SpecBridge == InitBridge /\ [][NextBridge]_vars

\* SpecHandshake: the client's connect() against the bridge's connect(), with the
\* status events of the relay delivered to the client. The token attempts and
\* their pauses are taken to fit into the client's 20 s.
NextHandshake ==
    \/ Connect
    \/ SocketConnect
    \/ BridgeConnect
    \/ TokenResolved
    \/ TokenRejected
    \/ BackoffElapsed
    \/ LiveConnected
    \/ LiveConnectRejected
    \/ UpstreamError
    \/ UpstreamClose
    \/ ClientDisconnect
    \/ StatusRelayed

SpecHandshake == InitBridge /\ [][NextHandshake]_vars

\* The bridge's awaited calls settle, its timer fires, and what it emitted to a
\* connected client arrives.
FairHandshake ==
    /\ SpecHandshake
    /\ WF_vars(Connect) /\ WF_vars(SocketConnect) /\ WF_vars(BridgeConnect)
    /\ WF_vars(TokenResolved \/ TokenRejected) /\ WF_vars(BackoffElapsed)
    /\ WF_vars(LiveConnected \/ LiveConnectRejected) /\ WF_vars(StatusRelayed)

\* SpecOrder: one socketio session end to end, the capturer's frames on their way
\* to the provider and the provider's events on their way to the client.
NextOrder ==
    \/ Connect
    \/ SocketConnect
    \/ BridgeConnect
    \/ TokenResolved
    \/ LiveConnected
    \/ UpstreamTurn
    \/ Relayed
    \/ ResumeResolved
    \/ IoSendAudioChunk
    \/ InputRouted

SpecOrder == InitBridge /\ [][NextOrder]_vars

\* SpecFrames: the two receivers of provider messages, the ws build of the
\* session and the server's bridge (which serves a socketio client).
SpecFrames == Init /\ [][NextWS \/ NextBridge]_vars

\* SpecExtract: the provider produces a text and the extraction is applied to it.
NextExtract ==
    \/ Produce
    \/ Extract

SpecExtract == Init /\ [][NextExtract]_vars

\* SpecRisk: a view receives text events, live and as REST replies.
NextRisk ==
    \/ TextMessage
    \/ RestReply

SpecRisk == Init /\ [][NextRisk]_vars

\* SpecAlert: the risk updates of one conversation, on the live path and as REST
\* replies, while the user may be logged out in another tab.
NextAlert ==
    \/ RiskText
    \/ RiskReply
    \/ LoggedOutElsewhere

SpecAlert == InitBridge /\ [][NextAlert]_vars

\* SpecStore: the alert store under any sequence of saves and clears.
NextStore ==
    \/ SaveAnyAlert
    \/ ClearAnyAlert

SpecStore == InitBridge /\ [][NextStore]_vars

\* SpecMerge: the risk updates of one conversation, as handleRiskData sees them.
SpecMerge == InitBridge /\ [][RiskUpdate]_vars

\* SpecMemory: visits of the conversation view to one browser, with messages
\* exchanged on the REST path.
NextMemory ==
    \/ ChatReply
    \/ Reload
    \/ Relogin
    \/ LoggedOutElsewhere

SpecMemory == InitBridge /\ [][NextMemory]_vars

\* SpecLive: the view of the socketio build with its session: the handshake,
\* server errors, the mic and its capturers, and what the view sends.
NextLive ==
    \/ Connect
    \/ SocketConnect
    \/ ServerStatus
    \/ ConnectTimeout
    \/ HandleMicPress
    \/ CapturerStarted
    \/ CapturerFailed
    \/ CapturerChunk
    \/ LiveSendText

SpecLive == InitBridge /\ [][NextLive]_vars

\* SpecChat: the view of the ws build receives the content frames of a
\* conversation.
SpecChat == InitWS /\ [][ServerContent]_vars

\* SpecInterrupt: a connected session of the socketio build plays audio, is
\* interrupted, and is used to send text and audio.
NextInterrupt ==
    \/ Connect
    \/ SocketConnect
    \/ ServerReady
    \/ AudioOutput
    \/ ResumeResolved
    \/ Interrupted
    \/ IoSendText
    \/ IoSendAudioChunk

SpecInterrupt == InitBridge /\ [][NextInterrupt]_vars

\* SpecEngine: calculateRisk is applied once, to arguments of any severities.
SpecEngine == InitBridge /\ [][ApplyCalculateRisk]_vars

\* Time passes, and the browser delivers due 'ended' events and due timers.
FairPlay ==
    /\ SpecPlay
    /\ WF_vars(Tick) /\ WF_vars(SourceEnded) /\ WF_vars(SpeakingTimeoutFires)

\* ------------------------------------------------------------------ claims

\* C1: once the status of a session is Error, or Disconnected after connect() was
\* called, no later step (a late status message, a transport event, a timer)
\* makes it Connecting or Connected again.
Terminal == status = "error" \/ (status = "disconnected" /\ connectResult # "none")

C1_TerminalStatusStays == [][Terminal => status' \notin {"connecting", "connected"}]_vars

\* C2: whatever messages arrive, repeated setupComplete acknowledgments
\* included, the setup message is written to the transport at most once.
SetupsOnWire == {k \in 1..Len(wire) : wire[k] = "setup"}

C2_SetupSentAtMostOnce == Cardinality(SetupsOnWire) <= 1

\* The ws build has sent its setup and has received the acknowledgment twice.
C2_Witness ==
    /\ variant = "ws" /\ setupSent /\ status = "connected"
    /\ readyAcks >= 2
    /\ SetupsOnWire # {}

\* C3: the status is Connected only after the session-ready acknowledgment has
\* been delivered, and the first status callbacks of a session that reaches
\* Connected are Connecting, Connected.
C3_ConnectedOnlyAfterReady ==
    /\ status = "connected" => readyAcks > 0
    /\ \A k \in 1..Len(statusLog) :
          statusLog[k] = "connected" => (k > 1 /\ readyAcks > 0)

\* C4: when the 20 s connect timer fires, connect() resolves false, the error
\* callback fires, the status becomes Error and the socket the attempt opened is
\* closed.
C4_TimeoutReleasesSocket ==
    [][ConnectTimeout =>
          /\ connectResult' = "false"
          /\ errorLog' = Append(errorLog, "timeout")
          /\ status' = "error"
          /\ sockState' \notin {"opening", "open"}]_vars

\* C5: disconnect() called on a session that disconnect() has already closed
\* makes no further status-change callback and no error callback.
C5_SecondDisconnectIsSilent ==
    [][(Disconnect /\ intentionalDisconnect /\ status = "disconnected")
          => (statusLog' = statusLog /\ errorLog' = errorLog)]_vars

\* C9: a connect error, an unexpected loss of the transport or an error
\* reported by the provider, arriving while the status is Connecting or
\* Connected, makes one error callback and sets the status to Error.
ProviderError == \E m \in StatusMsgs : m.error /\ StatusDelivered(m)
TransportFault ==
    ConnectError \/ SocketDisconnect \/ WsError \/ WsClose \/ SdkError \/ SdkClose \/ SdkConnectRejects

C9_FaultsForceError ==
    [][(status \in {"connecting", "connected"} /\ (TransportFault \/ ProviderError))
          => (status' = "error" /\ Len(errorLog') = Len(errorLog) + 1)]_vars

\* C10: in every state where the session has ended (status Disconnected or Error
\* after connect() was called) no capturer is running and no playback buffer is
\* scheduled.
C10_EndedSessionIsQuiet ==
    Terminal =>
        /\ \A c \in CapIds : capturers[c] # "running"
        /\ \A i \in ChunkIds : src[i].state # "scheduled"

NewlyScheduled == {i \in ChunkIds : src[i].state = "unused" /\ src'[i].state = "scheduled"}
Least(S) == CHOOSE x \in S : \A y \in S : x <= y
Live(i) == src[i].state \in {"scheduled", "ended"}

\* C6: handling Interrupted cancels every scheduled buffer, empties
\* scheduledSources and resets the cursor; a cancelled buffer produces no output
\* afterwards; and the next chunk scheduled on a reset cursor starts at
\* currentTime + lookahead.
C6_InterruptClearsBacklog ==
    /\ [][Interrupted =>
            /\ scheduledSources' = << >>
            /\ nextPlayTime' = 0
            /\ \A i \in ChunkIds : src'[i].state # "scheduled"]_vars
    /\ [][\A i \in ChunkIds :
            src[i].state = "stopped" => (src'[i].state = "stopped" /\ (i \in played' <=> i \in played))]_vars
    /\ [][(nextPlayTime = 0 /\ NewlyScheduled # {})
            => src'[Least(NewlyScheduled)].start = clock + BUFFER_LOOKAHEAD]_vars

\* An interruption cancelled a buffer before it produced output, and a later chunk
\* has just started a fresh timeline.
C6_Witness ==
    /\ sockState = "open"
    /\ \E i, j \in ChunkIds :
         /\ i < j
         /\ src[i].state = "stopped" /\ i \notin played
         /\ src[j].state = "scheduled" /\ src[j].start = clock + BUFFER_LOOKAHEAD
         /\ nextPlayTime = src[j].end

\* C7: chunks are scheduled in arrival order (no chunk is scheduled while an
\* earlier one still waits), and of two buffers that were not cancelled the later
\* one starts no earlier than the earlier one ends.
C7_GaplessInOrder ==
    \A i, j \in ChunkIds :
        i < j =>
          /\ (src[j].state # "unused" => ~InSeq(i, [k \in 1..Len(pendingResume) |-> pendingResume[k].id]))
          /\ (Live(i) /\ Live(j) => src[j].start >= src[i].end)

\* Three chunks are scheduled back to back with no gap.
C7_Witness ==
    /\ \A i \in 1..3 : Live(i)
    /\ src[2].start = src[1].end
    /\ src[3].start = src[2].end

\* C8: scheduling a chunk makes isSpeaking true; it is true whenever a buffer is
\* scheduled; it turns false only when nothing is scheduled and every buffer
\* ended or was cancelled at least 300 ms ago; and it does turn false.
C8_SpeakingSignal ==
    /\ [][NewlyScheduled # {} => isSpeaking']_vars
    /\ [](scheduledSources # << >> => isSpeaking)
    /\ [][(isSpeaking /\ ~isSpeaking') =>
            \A i \in ChunkIds :
               /\ src[i].state # "scheduled"
               /\ (src[i].state \in {"ended", "stopped"}
                     => clock >= src[i].end + SPEAKING_DEBOUNCE)]_vars
    /\ (isSpeaking ~> ~isSpeaking)

\* Three chunks were played to their end and the signal has just turned false,
\* 300 ms after the last one ended.
C8_Witness ==
    /\ \A i \in 1..3 : src[i].state = "ended"
    /\ ~isSpeaking
    /\ clock = src[3].end + SPEAKING_DEBOUNCE

\* C11: a sendText or sendAudioChunk call made while the transport is not open
\* is never written to the transport, then or later, and nothing waits in a
\* send queue.
C11_ClosedSendsAreDropped ==
    /\ \A k \in 1..Len(wireCalls) : wireCalls[k] \notin closedCalls
    /\ sendBuffer = << >>

\* A call was made before the transport opened, the transport then opened, and
\* a later call was transmitted while the earlier one was not.
C11_Witness ==
    /\ sockState = "open"
    /\ 1 \in closedCalls
    /\ \E k \in 1..Len(wireCalls) : wireCalls[k] = 2

\* C12: a sendText call made while the status is not Connected writes nothing
\* to the transport.
C12_TextOnlyWhenConnected ==
    [][((IoSendText \/ WsSendText \/ SdkSendText) /\ status # "connected")
          => wire' = wire]_vars

\* The token attempts of the current connect() that were rejected.
FailedAttempts == Cardinality({k \in 1..Len(tokenLog) : tokenLog[k] = "fail"})

\* C13: one connect() of the bridge asks for a token at most 3 times, pauses
\* 1 s after a failed attempt that is followed by another one and at no other
\* time, always leaves the retry loop, and after 3 failed attempts has opened no
\* upstream session and has emitted an error status to the client.
C13_TokenRetriesBounded ==
    /\ [](/\ Len(tokenLog) <= TOKEN_RETRIES
          /\ \A k \in 1..Len(pauses) : pauses[k] = TOKEN_BACKOFF
          /\ Len(pauses) = IF FailedAttempts = TOKEN_RETRIES
                             THEN TOKEN_RETRIES - 1 ELSE FailedAttempts
          /\ (FailedAttempts = TOKEN_RETRIES
                => /\ brPhase = "failed" /\ upstream = "none" /\ ~session
                   /\ \E k \in 1..Len(emitted) : emitted[k] = "status:Connection Error"))
    /\ (brPhase \in {"token", "backoff"} ~> brPhase \in {"connecting", "up", "failed"})

\* All three attempts failed, with two pauses between them.
C13_Witness ==
    /\ tokenLog = <<"fail", "fail", "fail">>
    /\ pauses = <<TOKEN_BACKOFF, TOKEN_BACKOFF>>
    /\ brPhase = "failed"

\* The token call failed twice and then returned a named token.
ThirdTimeLucky == tokenLog = <<"fail", "fail", "named">>

C15_NoUpstreamForGoneClient == clientGone => upstream # "open"

\* The relay messages that correspond to the upstream event e.
Corresponding(e) ==
    IF e.kind = "error" THEN <<"status:Gemini Error">>
    ELSE IF e.kind = "close" THEN <<"status:Gemini Disconnected">>
    ELSE IF e.malformed THEN << >>
    ELSE [k \in 1..e.audio |-> "audio-output"]
         \o (IF e.turnComplete THEN <<"turn-complete">> ELSE << >>)
         \o (IF e.interrupted THEN <<"interrupted">> ELSE << >>)
         \o (IF e.activityStart THEN <<"user-speech-start">> ELSE << >>)
         \o (IF e.activityEnd THEN <<"user-speech-end">> ELSE << >>)

RECURSIVE CorrespondingUpTo(_)
CorrespondingUpTo(n) ==
    IF n = 0 THEN << >>
    ELSE CorrespondingUpTo(n - 1) \o Corresponding(upstreamLog[n])

RECURSIVE HandledAtUpTo(_)
HandledAtUpTo(n) ==
    IF n = 0 THEN << >>
    ELSE HandledAtUpTo(n - 1) \o [k \in 1..Len(Corresponding(upstreamLog[n])) |-> n]

\* How many messages connect() itself emitted, outside any upstream event.
OwnEmits == Cardinality({k \in 1..Len(emitted) : emittedAt[k] = 0})

\* C16: after what connect() itself emitted, the messages emitted to the client
\* are exactly the relay messages of the upstream events received so far, in
\* the order of those events, each emitted while its own event was handled.
C16_RelayInOrder ==
    /\ \A k \in 1..OwnEmits : emittedAt[k] = 0
    /\ SubSeq(emitted, OwnEmits + 1, Len(emitted)) = CorrespondingUpTo(Len(upstreamLog))
    /\ SubSeq(emittedAt, OwnEmits + 1, Len(emittedAt)) = HandledAtUpTo(Len(upstreamLog))

\* A message with audio, turn-complete and interrupted, then an error, then
\* the close, all relayed.
C16_Witness ==
    /\ Len(upstreamLog) = 3
    /\ upstreamLog[1].kind = "message" /\ upstreamLog[1].audio = 1
    /\ upstreamLog[1].turnComplete /\ upstreamLog[1].interrupted
    /\ upstreamLog[2].kind = "error" /\ upstreamLog[3].kind = "close"
    /\ emitted = <<"status:ready", "audio-output", "turn-complete", "interrupted",
                   "status:Gemini Error", "status:Gemini Disconnected">>

\* C17: every risk record parsed out of an incoming text is handed to
\* handleRiskData exactly once, in the order the texts arrived: the records
\* handed over are the records parsed, none missing and none repeated.
C17_EveryParsedTagDelivered == riskLog = parsedLog

\* t holds exactly one marker, at i, and it opens a tag that ends at j and
\* encloses a JSON object of one or more numeric members.
SingleTag(t, i, j) ==
    /\ i + 4 <= j /\ j <= Len(t)
    /\ \A k \in 1..Len(t) : t[k] = "T" <=> k = i
    /\ t[i + 1] = "{" /\ t[j - 1] = "}" /\ t[j] = "]"
    /\ \A k \in (i + 2)..(j - 2) : t[k] \in Members

\* t with its positions i..j taken out.
Without(t, i, j) == SubSeq(t, 1, i - 1) \o SubSeq(t, j + 1, Len(t))

Program == [Cur EXCEPT !.badFrames = 0, !.upstreamLog = << >>, !.emittedAt = << >>]

IsWellFormed(e) == e.kind # "message" \/ ~e.malformed

RECURSIVE CorrespondingAll(_)
CorrespondingAll(log) ==
    IF log = << >> THEN << >>
    ELSE Corresponding(Head(log)) \o CorrespondingAll(Tail(log))

\* C19: a frame the ws build cannot parse, and a provider message the bridge
\* cannot read, change nothing: no status, flag, playback or log of callbacks
\* and errors differs after it, so what follows is handled as if it had not
\* arrived; the bridge has relayed exactly what the readable events call for.
C19_MalformedIsSkipped ==
    /\ [][badFrames' # badFrames => Program' = Program]_vars
    /\ [][(UpstreamMessage /\ ~IsWellFormed(upstreamLog'[Len(upstreamLog')]))
            => Program' = Program]_vars
    /\ [](SubSeq(emitted, OwnEmits + 1, Len(emitted))
            = CorrespondingAll(SelectSeq(upstreamLog, IsWellFormed)))

\* The ws build received an unparseable frame while Connecting and then the
\* setupComplete, which made it Connected.
C19_Witness ==
    /\ variant = "ws" /\ badFrames = 1
    /\ statusLog = <<"connecting", "connected">> /\ errorLog = << >>

\* C20: at the moment the promise of connect() is resolved with true the status
\* is Connected, and at the moment it is resolved with false the status is not
\* Connected.
C20_ResolvesWithStatus ==
    [][/\ (connectResult # "true" /\ connectResult' = "true") => status' = "connected"
       /\ (connectResult # "false" /\ connectResult' = "false") => status' # "connected"]_vars

\* C21: on the connection of the ws build, every text or audio frame on the wire
\* comes after the setup message.
C21_SetupPrecedesFrames ==
    \A k \in 1..Len(wire) :
        wire[k] \in {"text", "audio"} => \E j \in 1..(k - 1) : wire[j] = "setup"

\* A text and an audio frame were written right after the setup message, while
\* the session was still Connecting.
C21_Witness ==
    /\ variant = "ws" /\ status = "connecting"
    /\ wire = <<"setup", "text", "audio">>

\* How many of the first n relay events are audio chunks.
AudioRelayedUpTo(n) == Cardinality({k \in 1..n : emitted[k] = "audio-output"})

Band(score) ==
    IF score >= 70 THEN "critical"
    ELSE IF score >= 45 THEN "high"
    ELSE IF score >= 20 THEN "medium"
    ELSE "low"

\* C23: the level calculateRisk returns is the band of the score it returns:
\* low up to 19, medium from 20 to 44, high from 45 to 69, critical from 70, for
\* every combination of severities.
C23_LevelFollowsBands == calc.applied => calc.result.level = Band(calc.result.score)

\* The alert record of the patient in conversation for the assessment a.
AlertFor(a) ==
    [patientId |-> liveUser, riskScore |-> a.score, riskLevel |-> a.level,
     symptoms |-> FlagNames(a.flags)]

\* C24: whenever a risk update produces an assessment of level high or critical,
\* the alert record of the patient, with the assessment's score, level and
\* flags, is in the shared alert store right after the update.
C24_HighRiskIsAlerted ==
    [][(Len(riskLog') > Len(riskLog) /\ currentRisk'.level \in {"high", "critical"})
         => \E k \in 1..Len(liveAlerts') : liveAlerts'[k] = AlertFor(currentRisk')]_vars

\* The conversation view opens in this step.
ViewOpens == dateNow' > dateNow /\ textEvents' = 0

\* C25: when the view opens for a user who has talked in an earlier session, the
\* prior-session context handed to the session is built from that session.
C25_ContextFromEarlierSession ==
    [][(ViewOpens /\ talked[currentUser'] # 0)
         => (previousContext'.kind # "undefined" /\ previousContext'.of = talked[currentUser'])]_vars

\* The session has reported an error: an error callback, or the status Error.
ErrorReported == errorLog # << >> \/ \E k \in 1..Len(statusLog) : statusLog[k] = "error"

\* C26: once the session has reported an error, nothing more is written to the
\* live transport: no text turn and no audio chunk.
C26_NoLiveTrafficAfterError == [][ErrorReported => wire' = wire]_vars

\* C27: the mic flag changes only in handleMicPress (the press, or the failure of
\* the capture it started): no event of the session changes it.
C27_MicOnlyByUser ==
    [][isMicActive' # isMicActive => (HandleMicPress \/ CapturerFailed)]_vars

\* C28: a chunk that is scheduled when the cursor is behind the clock, or on a
\* fresh timeline (cursor 0), starts at currentTime + lookahead; every chunk
\* starts no earlier than the clock reads (the clock of a suspended context
\* stands still between the arrival of a chunk and its scheduling); chunks
\* scheduled by one resume follow one another; and the cursor ends at the end
\* of the last chunk scheduled, one duration past its start.
Greatest(S) == CHOOSE x \in S : \A y \in S : x >= y

C28_CursorCatchesUp ==
    [][NewlyScheduled # {} =>
         /\ clock' = clock
         /\ (nextPlayTime < clock \/ nextPlayTime = 0
               => src'[Least(NewlyScheduled)].start = clock + BUFFER_LOOKAHEAD)
         /\ (nextPlayTime >= clock /\ nextPlayTime # 0
               => src'[Least(NewlyScheduled)].start = nextPlayTime)
         /\ \A i \in NewlyScheduled :
               /\ src'[i].start >= clock
               /\ src'[i].end > src'[i].start
               /\ \A j \in NewlyScheduled :
                     (i < j /\ ~\E k \in NewlyScheduled : i < k /\ k < j)
                        => src'[j].start = src'[i].end
         /\ nextPlayTime' = src'[Greatest(NewlyScheduled)].end]_vars

\* The first chunk played to its end, the clock ran past the cursor, and the
\* second chunk has just been scheduled a lookahead after the clock, leaving a gap.
C28_Witness ==
    /\ src[1].state = "ended"
    /\ src[2].state = "scheduled"
    /\ src[1].end < clock
    /\ src[2].start = clock + BUFFER_LOOKAHEAD
    /\ nextPlayTime = src[2].end

\* C29: every turn that carried text to show has one assistant entry of its own:
\* the texts of a turn go into one entry, the first text after a TurnComplete
\* makes a new one (so there are as many entries as such turns, never more), and
\* TurnComplete leaves the partial-message id null until the next text.
C29_OneEntryPerTurn ==
    /\ Len(messages) = Cardinality(textTurns)
    /\ (turn \notin textTurns => partialMessageIdRef = 0)

\* C30: handling 'interrupted' writes playback state only: the status, the
\* socket and its state, the result of connect(), the status and error
\* callbacks' logs, the wire and the view's flags stay as they were; and once
\* an interruption has stopped a buffer, a send call on the open socket is
\* still written to the wire.
WasInterrupted == \E i \in ChunkIds : src[i].state = "stopped"

C30_InterruptLeavesSessionAlone ==
    /\ [][Interrupted =>
            /\ status' = status /\ sockRef' = sockRef /\ sockState' = sockState
            /\ connectResult' = connectResult /\ intentionalDisconnect' = intentionalDisconnect
            /\ statusLog' = statusLog /\ errorLog' = errorLog
            /\ wire' = wire /\ sendBuffer' = sendBuffer /\ sendCalls' = sendCalls
            /\ isLiveEnabled' = isLiveEnabled /\ isMicActive' = isMicActive]_vars
    /\ [][(WasInterrupted /\ sendCalls' = sendCalls + 1)
            => (Len(wire') = Len(wire) + 1 /\ wireCalls'[Len(wire')] = sendCalls')]_vars

\* An interruption stopped the first chunk before it played; the session is
\* still connected without an error, and a text and an audio chunk are on the wire.
C30_Witness ==
    /\ src[1].state = "stopped" /\ 1 \notin played
    /\ status = "connected" /\ sockState = "open" /\ errorLog = << >>
    /\ \E j, k \in 1..Len(wire) : wire[j] = "text" /\ wire[k] = "audio"

\* C31: once disconnect() was called while the status was Connecting (the status
\* callbacks began connecting, disconnected, and the transport was not lost
\* before), no later step reports an error or moves the status away from
\* Disconnected.
CancelledWhileConnecting ==
    /\ intentionalDisconnect
    /\ Len(statusLog) >= 2 /\ statusLog[1] = "connecting" /\ statusLog[2] = "disconnected"
    /\ ~InSeq("lost", errorLog)

C31_DisconnectCancelsConnect ==
    [][CancelledWhileConnecting => (errorLog' = errorLog /\ status' = "disconnected")]_vars

\* C32 (socketio and ws builds): the step in which disconnect() drops the
\* transport, and the transport events that close() of disconnect() brings
\* about, call no error callback; and when the transport closes on its own under
\* a session that is connecting or connected, the status changes and the status
\* callback reports it.
ClosedByDisconnect == (sockRef /\ ~sockRef') \/ sockState = "aborting"

ClosedUnasked ==
    /\ sockState \in {"opening", "open"} /\ sockState' = "closed" /\ sockRef'
    /\ status \in {"connecting", "connected"}

C32_IntentionalCloseIsSilent ==
    /\ [][(variant \in {"socketio", "ws"} /\ ClosedByDisconnect) => errorLog' = errorLog]_vars
    /\ [][(variant \in {"socketio", "ws"} /\ ClosedUnasked)
            => (status' # status /\ Len(statusLog') = Len(statusLog) + 1)]_vars

\* C33: a chunk that had arrived when an 'interrupted' event or a disconnect()
\* was handled, and whose scheduleAudioPlayback call was still suspended in
\* await resume(), is not scheduled when the call runs on.
C33_NoStaleChunkScheduled ==
    [][\A k \in 1..Len(pendingResume) :
          pendingResume[k].cut => src'[pendingResume[k].id].state # "scheduled"]_vars

\* C34: whenever the mic flag is off, no PCMCapturer is running.
C34_MicOffMeansNoCapture ==
    ~isMicActive => \A c \in CapIds : capturers[c] # "running"

\* C35: when the provider session has closed under a client session that is
\* Connected, the client's status becomes Disconnected or Error.
C35_UpstreamCloseEndsSession ==
    (upstream = "closed" /\ status = "connected") ~> (status \in {"disconnected", "error"})

\* C36: whenever a buffer source is scheduled or playing isSpeaking is true, and the
\* values passed to onSpeakingChange alternate true, false, true, ..., the first
\* one being true.
C36_SpeakingSignalAlternates ==
    /\ scheduledSources # << >> => isSpeaking
    /\ speakingCalls.alternate

\* A later speaking episode: one buffer has ended, another one is scheduled to
\* start after a silence, and the last value reported is true.
C36_Witness ==
    /\ speakingCalls = [last |-> "true", alternate |-> TRUE]
    /\ scheduledSources # << >>
    /\ isSpeaking
    /\ \E i, j \in ChunkIds :
          /\ src[i].state = "ended"
          /\ src[j].state = "scheduled"
          /\ src[j].start >= src[i].end + SPEAKING_DEBOUNCE

\* The alert the store holds for patient p in the sequence q, as a set (empty when
\* there is none).
AlertsOf(q, p) == {q[k] : k \in {l \in 1..Len(q) : q[l].patientId = p}}

PositionsOf(q, p) == {k \in 1..Len(q) : q[k].patientId = p}

\* C37: the alert store holds at most one alert per patientId; saving an alert for
\* a patient who has one replaces it at its position and leaves the others alone
\* (a new patient's alert is added); clearLiveAlert(p) removes p's alert and
\* leaves every other patient's alert unchanged.
C37_OneAlertPerPatient ==
    /\ [](\A p \in Patients : Cardinality(PositionsOf(liveAlerts, p)) <= 1)
    /\ [][\A a \in StoreAlerts : SaveAlert(a) =>
            /\ AlertsOf(liveAlerts', a.patientId) = {a}
            /\ PositionsOf(liveAlerts, a.patientId) # {}
                 => PositionsOf(liveAlerts', a.patientId) = PositionsOf(liveAlerts, a.patientId)
            /\ \A p \in Patients \ {a.patientId} :
                 AlertsOf(liveAlerts', p) = AlertsOf(liveAlerts, p)]_vars
    /\ [][\A p \in Patients : ClearAlert(p) =>
            /\ AlertsOf(liveAlerts', p) = {}
            /\ \A o \in Patients \ {p} : AlertsOf(liveAlerts', o) = AlertsOf(liveAlerts, o)]_vars

\* Every patient has an alert in the store: each save replaces one, each clear
\* removes one.
C37_Witness ==
    /\ \A p \in Patients : Cardinality(PositionsOf(liveAlerts, p)) = 1
    /\ \E k \in 1..Len(liveAlerts) : liveAlerts[k].riskScore = 70

SymptomFields ==
    {"headache", "blurredVision", "swelling", "highBP", "bleeding", "fever", "reducedMovement"}

MergeRecords == {RiskDataOf(f) : f \in MergeTags}

\* The daysPregnant of the last record of the log that has one; 0 when no record
\* has one; Absent before the first update.
RECURSIVE LatestDays(_)
LatestDays(log) ==
    IF log = << >> THEN Absent
    ELSE IF RiskDataOf(log[Len(log)]).daysPregnant # Absent
      THEN RiskDataOf(log[Len(log)]).daysPregnant
    ELSE IF LatestDays(SubSeq(log, 1, Len(log) - 1)) # Absent
      THEN LatestDays(SubSeq(log, 1, Len(log) - 1))
    ELSE 0

\* C38: each cumulative symptom severity is the greatest value received so far and
\* never decreases; mergeRiskData is idempotent and, on the seven symptom fields,
\* commutative; daysPregnant is the latest value received.
C38_CumulativeMerge ==
    /\ [](\A f \in SymptomFields :
            cumulativeRiskData[f] =
              Greatest({0} \cup {RiskDataOf(riskLog[k])[f] : k \in 1..Len(riskLog)}))
    /\ [][\A f \in SymptomFields : cumulativeRiskData'[f] >= cumulativeRiskData[f]]_vars
    /\ [](\A i \in MergeRecords :
            MergeRiskData(MergeRiskData(cumulativeRiskData, i), i)
              = MergeRiskData(cumulativeRiskData, i))
    /\ [](\A i \in MergeRecords : \A f \in SymptomFields :
            MergeRiskData(cumulativeRiskData, i)[f] = MergeRiskData(i, cumulativeRiskData)[f])
    /\ [](cumulativeRiskData.daysPregnant = LatestDays(riskLog))

\* A severity was received after a greater one of the same symptom, and a
\* gestational age after a greater one: the first is kept, the second is taken.
C38_Witness ==
    /\ riskLog = << <<"H", "d">>, <<"h">>, <<"D">> >>
    /\ cumulativeRiskData.headache = 3
    /\ cumulativeRiskData.daysPregnant = 100

\* C39: the conversation session the view holds as current, whose stored messages
\* are the history of the REST path, belongs to the user who is signed in.
C39_SessionBelongsToUser ==
    (currentUser # NoUser /\ currentSession # NoSession) => currentSession.userId = currentUser

====
